---------------------------- MODULE Spec2Model ----------------------------
(***************************************************************************)
(* BPM-Detector: the batch tempo pipeline of bpm_core.py (BPMAnalyzer) and *)
(* the microphone streaming logic of analyzer.py (BPMGUIApp).              *)
(*                                                                         *)
(* Numbers.  Python floats are modelled in fixed point: an amplitude, an   *)
(* energy, a flux or an onset strength x is the integer x * Unit, a time   *)
(* of t seconds inside the pipeline is t * 1000 (milliseconds) and a       *)
(* tempo of b BPM is b * 100.  NaN is a value of its own: every            *)
(* arithmetic operation propagates it and every comparison with it is      *)
(* FALSE, as in IEEE 754.  An exception raised by numpy is the result      *)
(* record with err = TRUE.                                                 *)
(*                                                                         *)
(* Scale.  The sample rate, the frame and hop sizes and the capture block  *)
(* size are the program's, scaled down together so that TLC can enumerate  *)
(* buffers: 8 samples per second, frames of 3 samples, hop 1.  The code    *)
(* that reads them is translated unchanged.                                *)
(***************************************************************************)
EXTENDS Integers, Sequences, FiniteSets, TLC

(***************************************************************************)
(* Fixed point and NaN                                                     *)
(***************************************************************************)
Unit == 10 * 10

NaN == 0 - 2^30

IsNaN(x) == x = NaN

Abs(x) == IF x < 0 THEN 0 - x ELSE x

Min2(a, b) == IF a <= b THEN a ELSE b

Max2(a, b) == IF a >= b THEN a ELSE b

HasNaN(s) == \E i \in 1..Len(s) : IsNaN(s[i])

\* floor(sqrt(n)) for n >= 0, by bisection: lo * lo <= n < hi * hi
RECURSIVE IsqrtBetween(_, _, _)
IsqrtBetween(n, lo, hi) ==
    IF hi - lo <= 1 THEN lo
    ELSE LET mid == (lo + hi) \div 2
         IN  IF mid * mid <= n THEN IsqrtBetween(n, mid, hi)
             ELSE IsqrtBetween(n, lo, mid)

Isqrt(n) == IsqrtBetween(n, 0, 2^15)

\* sums over s[lo..hi], halving the range
RECURSIVE SumRange(_, _, _)
SumRange(s, lo, hi) ==
    IF lo > hi THEN 0
    ELSE IF lo = hi THEN s[lo]
    ELSE LET mid == (lo + hi) \div 2
         IN  SumRange(s, lo, mid) + SumRange(s, mid + 1, hi)

RECURSIVE SumSqRange(_, _, _)
SumSqRange(s, lo, hi) ==
    IF lo > hi THEN 0
    ELSE IF lo = hi THEN s[lo] * s[lo]
    ELSE LET mid == (lo + hi) \div 2
         IN  SumSqRange(s, lo, mid) + SumSqRange(s, mid + 1, hi)

SumSeq(s) == SumRange(s, 1, Len(s))

SumSqSeq(s) == SumSqRange(s, 1, Len(s))

\* the largest element of a non-empty sequence
MaxSeq(s) ==
    LET i == CHOOSE i \in 1..Len(s) : \A j \in 1..Len(s) : s[j] <= s[i]
    IN  s[i]

\* Python's s[-n:] for 0 < n: the last n elements, all of s when it is shorter
LastN(s, n) == IF Len(s) <= n THEN s ELSE SubSeq(s, Len(s) - n + 1, Len(s))

\* len(range(start, stop, step)) for step > 0
RangeLen(start, stop, step) ==
    IF stop <= start THEN 0 ELSE ((stop - start - 1) \div step) + 1

\* sorted(s), ascending: the element at place k is the one with k - 1
\* elements before it (equal elements in their order in s)
Sorted(s) ==
    LET n == Len(s)
        before == [i \in 1..n |->
                     Cardinality({j \in 1..n :
                         s[j] < s[i] \/ (s[j] = s[i] /\ j < i)})]
    IN  [k \in 1..n |-> s[CHOOSE i \in 1..n : before[i] = k - 1]]

\* np.mean of a non-empty sequence
Mean(s) == SumSeq(s) \div Len(s)

\* the mean where np.median is called
MeanInsteadOfMedian(s) == SumSeq(s) \div Len(s)

\* np.median of a non-empty sequence
Median(s) ==
    LET t == Sorted(s)
        n == Len(s)
    IN  IF n % 2 = 1 THEN t[(n + 1) \div 2]
        ELSE (t[n \div 2] + t[(n \div 2) + 1]) \div 2

(***************************************************************************)
(* BPMAnalyzer configuration (bpm_core.py, __init__)                       *)
(***************************************************************************)
\* scaled: frame_size = 2048 in the program
frame_size == 3

\* scaled: hop_size = 512 in the program
hop_size == 1

\* beat_threshold_multiplier = 1.3, as tenths
beat_threshold_multiplier == 13

bpm_smoothing_window == 3

\* window_size = 30 frames of the dynamic threshold
window_size == 30

\* min_beat_interval = 0.05 s, in milliseconds
min_beat_interval == 50

\* the candidate range 40..220 BPM
MinBpm == 40

MaxBpm == 220

\* the fields of a BPMAnalyzer constructed with the defaults, as
\* self.analyzer = BPMAnalyzer() does; spectral_flux_threshold = 0.15 in
\* hundredths
AnalyzerFields ==
    [frame_size                |-> frame_size,
     hop_size                  |-> hop_size,
     beat_threshold_multiplier |-> beat_threshold_multiplier,
     bpm_smoothing_window      |-> bpm_smoothing_window,
     spectral_flux_threshold   |-> 15]

(***************************************************************************)
(* 4.1 energy and spectral flux                                            *)
(***************************************************************************)
\* audio_data / np.max(np.abs(audio_data)) for a non-empty buffer:
\* 0 / 0 is NaN, so a silent buffer becomes all NaN
NormalizeByPeak(audio) ==
    LET m == MaxSeq([i \in 1..Len(audio) |-> Abs(audio[i])])
    IN  [i \in 1..Len(audio) |->
            IF m = 0 THEN NaN ELSE (audio[i] * Unit) \div m]

\* the number of frames: len(range(0, len(audio) - frame_size, hop_size))
NumFrames(n) == RangeLen(0, n - frame_size, hop_size)

\* audio_data[i : i + frame_size] of the k-th frame (k = 1, 2, ...)
Frame(audio, k) ==
    SubSeq(audio, (k - 1) * hop_size + 1, (k - 1) * hop_size + frame_size)

\* np.sqrt(np.mean(frame ** 2))
Rms(frame) ==
    IF HasNaN(frame) THEN NaN ELSE Isqrt(SumSqSeq(frame) \div frame_size)

Energy(audio) == [k \in 1..NumFrames(Len(audio)) |-> Rms(Frame(audio, k))]

\* np.hanning(frame_size) for frame_size = 3: (0, 1, 0)
Hanning == <<0, Unit, 0>>

\* |np.fft.rfft(frame * window)| for 3 real points w: the bins
\* |w1 + w2 + w3| and sqrt(w1^2 + w2^2 + w3^2 - w1 w2 - w2 w3 - w1 w3)
Magnitude(frame) ==
    IF HasNaN(frame) THEN <<NaN, NaN>>
    ELSE LET w == [j \in 1..frame_size |-> (frame[j] * Hanning[j]) \div Unit]
         IN  << Abs(w[1] + w[2] + w[3]),
                Isqrt(w[1] * w[1] + w[2] * w[2] + w[3] * w[3]
                      - w[1] * w[2] - w[2] * w[3] - w[1] * w[3]) >>

\* np.sum(np.maximum(0, magnitude - prev_magnitude) ** 2)
FluxValue(prev, mag) ==
    IF HasNaN(prev) \/ HasNaN(mag) THEN NaN
    ELSE SumSqSeq([b \in 1..Len(mag) |-> Max2(0, mag[b] - prev[b])])

\* np.max of a non-empty list: NaN when it holds one
NpMax(s) == IF HasNaN(s) THEN NaN ELSE MaxSeq(s)

\* the flux list: no value for the first frame; divided by its maximum
\* when that is > 0 (NaN > 0 is False)
calculate_spectral_flux(audio) ==
    LET n    == NumFrames(Len(audio))
        mags == [k \in 1..n |-> Magnitude(Frame(audio, k))]
        flux == [k \in 1..Max2(0, n - 1) |-> FluxValue(mags[k], mags[k + 1])]
    IN  IF flux = <<>> THEN flux
        ELSE LET max_flux == NpMax(flux)
             IN  IF ~IsNaN(max_flux) /\ max_flux > 0
                 THEN [k \in 1..Len(flux) |-> (flux[k] * Unit) \div max_flux]
                 ELSE flux

\* 0.7 * energy[:min_length] + 0.3 * spectral_flux[:min_length]
CombinedOnset(energy, flux) ==
    [i \in 1..Min2(Len(energy), Len(flux)) |->
        IF IsNaN(energy[i]) \/ IsNaN(flux[i]) THEN NaN
        ELSE (7 * energy[i] + 3 * flux[i]) \div 10]

(***************************************************************************)
(* 4.2 peak picking and the refractory merge                               *)
(***************************************************************************)
\* the threshold without the standard deviation: the local mean alone
AboveLocalMean(onset, i) ==
    LET lo == Max2(1, i - window_size)
        n  == i - lo + 1
        S  == SumRange(onset, lo, i)
    IN  /\ \A j \in lo..i : ~IsNaN(onset[j])
        /\ n * onset[i] - S > 0

\* combined_onset[i] > local_mean + multiplier * local_std over the window
\* combined_onset[max(0, i - window_size) : i + 1]; i is 1-based here.
\* With n values of sum S and sum of squares Q the test is
\* n x - S > 1.3 * sqrt(n Q - S^2), compared squared.
AboveThreshold(onset, i) ==
    LET lo == Max2(1, i - window_size)
        n  == i - lo + 1
        S  == SumRange(onset, lo, i)
        Q  == SumSqRange(onset, lo, i)
        d  == n * onset[i] - S
    IN  /\ \A j \in lo..i : ~IsNaN(onset[j])
        /\ d > 0
        /\ 100 * d * d > beat_threshold_multiplier * beat_threshold_multiplier
                           * (n * Q - S * S)

IsPeak(onset, i) ==
    /\ ~IsNaN(onset[i]) /\ ~IsNaN(onset[i - 1]) /\ ~IsNaN(onset[i + 1])
    /\ onset[i] > onset[i - 1]
    /\ onset[i] > onset[i + 1]
    /\ AboveThreshold(onset, i)

\* beat_time = i * hop_size / sample_rate for the 0-based frame index i
BeatTime(i, sample_rate) == (i * hop_size * 1000) \div sample_rate

\* the frame indices i of range(1, len(combined_onset) - 1) that are peaks,
\* 0-based as in the code, in order
PeakFrames(onset) ==
    SelectSeq([i \in 1..Max2(0, Len(onset) - 2) |-> i],
              LAMBDA i : IsPeak(onset, i + 1))

\* the peaks as beat times, in order
PeakTimes(onset, sample_rate) ==
    [k \in 1..Len(PeakFrames(onset)) |->
        BeatTime(PeakFrames(onset)[k], sample_rate)]

\* the merge measured from the peak before, kept or not, instead of from
\* the last beat kept
RECURSIVE RefineFromPrevious(_, _)
RefineFromPrevious(refined, beats) ==
    IF beats = <<>> THEN refined
    ELSE IF Len(beats) = 1 THEN Append(refined, Head(beats))
    ELSE IF beats[2] - beats[1] > min_beat_interval
         THEN RefineFromPrevious(Append(refined, Head(beats)), Tail(beats))
         ELSE RefineFromPrevious(refined, Tail(beats))

\* keep a beat when it is the first or more than min_beat_interval after
\* the last beat kept
RECURSIVE RefineBeats(_, _)
RefineBeats(refined, beats) ==
    IF beats = <<>> THEN refined
    ELSE IF refined = <<>> \/ Head(beats) - refined[Len(refined)] > min_beat_interval
         THEN RefineBeats(Append(refined, Head(beats)), Tail(beats))
         ELSE RefineBeats(refined, Tail(beats))

\* _detect_beats_improved: err when np.max is applied to an empty buffer
detect_beats_improved(audio_data, sample_rate) ==
    IF audio_data = <<>> THEN [err |-> TRUE, beats |-> <<>>]
    ELSE LET audio == NormalizeByPeak(audio_data)
             onset == CombinedOnset(Energy(audio), calculate_spectral_flux(audio))
         IN  [err |-> FALSE,
              beats |-> RefineBeats(<<>>, PeakTimes(onset, sample_rate))]

(***************************************************************************)
(* 4.3 tempo candidates                                                    *)
(***************************************************************************)
\* the candidates of one interval without the upper end of the range
IntervalCandidatesUncapped(interval) ==
    IF interval > 0
    THEN LET base_bpm == (60 * 1000 * 100) \div interval
         IN  SelectSeq(<<base_bpm \div 2, base_bpm, base_bpm * 2>>,
                       LAMBDA c : MinBpm * 100 <= c)
    ELSE <<>>

\* the candidates of one interval (milliseconds): 60 / interval times
\* 0.5, 1.0 and 2.0, those within [40, 220] kept, in that order
IntervalCandidates(interval) ==
    IF interval > 0
    THEN LET base_bpm == (60 * 1000 * 100) \div interval
         IN  SelectSeq(<<base_bpm \div 2, base_bpm, base_bpm * 2>>,
                       LAMBDA c : MinBpm * 100 <= c /\ c <= MaxBpm * 100)
    ELSE <<>>

RECURSIVE CandidatesFrom(_, _)
CandidatesFrom(beats, i) ==
    IF i > Len(beats) THEN <<>>
    ELSE IntervalCandidates(beats[i] - beats[i - 1])
         \o CandidatesFrom(beats, i + 1)

calculate_bpm_candidates(beats) ==
    IF Len(beats) < 2 THEN <<>> ELSE CandidatesFrom(beats, 2)

(***************************************************************************)
(* 4.4 robust aggregation                                                  *)
(***************************************************************************)
\* 4 * np.percentile(values, 25 * k) by linear interpolation between the
\* order statistics at position (n - 1) * k / 4 (k = 1: Q1, k = 3: Q3)
Quartile4(values, k) ==
    LET t   == Sorted(values)
        pos == (Len(t) - 1) * k
        lo  == (pos \div 4) + 1
        fr  == pos % 4
    IN  IF fr = 0 THEN 4 * t[lo]
        ELSE 4 * t[lo] + fr * (t[lo + 1] - t[lo])

\* the values within the fences, in ascending order instead of their own
filter_outliers_sorted(values) ==
    IF values = <<>> THEN <<>>
    ELSE LET q1  == Quartile4(values, 1)
             q3  == Quartile4(values, 3)
             iqr == q3 - q1
         IN  SelectSeq(Sorted(values),
                       LAMBDA v : /\ 8 * v >= 2 * q1 - 3 * iqr
                                  /\ 8 * v <= 2 * q3 + 3 * iqr)

\* the values strictly inside the fences
filter_outliers_strict(values) ==
    IF values = <<>> THEN <<>>
    ELSE LET q1  == Quartile4(values, 1)
             q3  == Quartile4(values, 3)
             iqr == q3 - q1
         IN  SelectSeq(values,
                       LAMBDA v : /\ 8 * v > 2 * q1 - 3 * iqr
                                  /\ 8 * v < 2 * q3 + 3 * iqr)

\* values within [q1 - 1.5 iqr, q3 + 1.5 iqr], order kept; compared times 8
filter_outliers_iqr(values) ==
    IF values = <<>> THEN <<>>
    ELSE LET q1  == Quartile4(values, 1)
             q3  == Quartile4(values, 3)
             iqr == q3 - q1
         IN  SelectSeq(values,
                       LAMBDA v : /\ 8 * v >= 2 * q1 - 3 * iqr
                                  /\ 8 * v <= 2 * q3 + 3 * iqr)

\* the means of windows that do not overlap: each begins where the one
\* before ended
moving_average_disjoint(values, window) ==
    IF Len(values) < window THEN values
    ELSE [i \in 1..(Len(values) \div window) |->
             Mean(SubSeq(values, (i - 1) * window + 1, i * window))]

\* the means of the windows values[i : i + window]
moving_average(values, window) ==
    IF Len(values) < window THEN values
    ELSE [i \in 1..(Len(values) - window + 1) |->
             Mean(SubSeq(values, i, i + window - 1))]

\* the sums where np.mean is called
AggregateBpmBySum(bpm_candidates, filtered_bpm) ==
    IF filtered_bpm = <<>>
    THEN (IF bpm_candidates = <<>> THEN 0 ELSE Median(bpm_candidates))
    ELSE IF Len(filtered_bpm) >= bpm_smoothing_window
    THEN SumSeq(moving_average(filtered_bpm, bpm_smoothing_window))
    ELSE SumSeq(filtered_bpm)

\* the BPM from the candidates and from those the IQR filter kept: the
\* median of the candidates when the filter kept none, else the mean of the
\* moving averages (of the filtered values themselves when fewer than the
\* smoothing window)
AggregateBpm(bpm_candidates, filtered_bpm) ==
    IF filtered_bpm = <<>>
    THEN (IF bpm_candidates = <<>> THEN 0 ELSE Median(bpm_candidates))
    ELSE IF Len(filtered_bpm) >= bpm_smoothing_window
    THEN Mean(moving_average(filtered_bpm, bpm_smoothing_window))
    ELSE Mean(filtered_bpm)

BpmOfCandidates(bpm_candidates) ==
    AggregateBpm(bpm_candidates, filter_outliers_iqr(bpm_candidates))

\* the rest of analyze_audio_data once the beats are detected
BpmOfBeats(det) ==
    IF det.err THEN [err |-> TRUE, bpm |-> 0]
    ELSE IF det.beats = <<>> THEN [err |-> FALSE, bpm |-> 0]
    ELSE [err |-> FALSE,
          bpm |-> BpmOfCandidates(calculate_bpm_candidates(det.beats))]

\* analyze_audio_data: the BPM (times 100), 0 when there is none
analyze_audio_data(audio_data, sample_rate) ==
    BpmOfBeats(detect_beats_improved(audio_data, sample_rate))

\* analyze_audio_segment delegates to analyze_audio_data
analyze_audio_segment(audio_segment, sample_rate) ==
    analyze_audio_data(audio_segment, sample_rate)

(***************************************************************************)
(* Streaming: BPMGUIApp's microphone monitoring (analyzer.py)              *)
(*                                                                         *)
(* Three kinds of activity run concurrently: the Tk main loop (the toggle  *)
(* button, the interval dropdown, the callbacks queued with root.after),   *)
(* one monitor thread per _start_mic_monitoring, and the capture callback  *)
(* of each open input stream.  No lock protects the fields they share, so  *)
(* every statement that reads or writes a shared field is a step of its    *)
(* own wherever the order matters.  Time is counted in ticks of 0.5 s, the *)
(* polling period.                                                         *)
(***************************************************************************)
\* scaled: 44100 samples per second in the program
mic_sample_rate == 8

\* scaled: blocksize of the input stream, here 6 s of audio
mic_chunk_size == 48

\* max_buffer_size = mic_sample_rate * 10
max_buffer_size == mic_sample_rate * 10

\* history_size = 20
history_size == 20

\* time.sleep(0.5), in ticks
SleepTicks == 1

\* the values of the interval dropdown used here: 1 s and 2 s, in ticks
Intervals == {2, 4}

\* bounds of the model
MaxSessions == 2

MaxChunks == 2

MaxClock == 3

\* the click period (in samples) of the sounds captured; 0 is silence
Signals == {0, 6}

Threads == 1..MaxSessions

\* identities of the list objects mic_time_bpm_pairs and
\* recorded_mic_bpm_data can refer to; 0 is "no such attribute"
ListIds == 1..2

\* final_mic_bpm before the first final analysis (the attribute is absent)
Absent == 0 - 1

VARIABLES
    mic_recording,            \* self.mic_recording
    mic_stream,               \* self.mic_stream: the thread whose stream it is, 0 for None
    mic_buffer,               \* self.mic_buffer
    mic_bpm_history,          \* self.mic_bpm_history
    mic_bpm,                  \* self.mic_bpm
    mic_start_time,           \* self.mic_start_time
    mic_last_bpm_sample_ts,   \* self.mic_last_bpm_sample_ts
    mic_bpm_sample_interval,  \* self.mic_bpm_sample_interval
    mic_time_bpm_pairs,       \* self.mic_time_bpm_pairs: a list identity
    recorded_mic_bpm_data,    \* self.recorded_mic_bpm_data: a list identity
    lists,                    \* the contents of the list objects
    final_mic_bpm,            \* self.final_mic_bpm
    clock,                    \* time.time()
    stream,                   \* per thread: its input stream, "none", "active" or "closed"
    signal,                   \* per thread: the sound its stream captures
    delivered,                \* per thread: samples its stream has delivered
    cb_pc,                    \* per thread: audio_callback, "idle" or "truncate"
    t_pc,                     \* per thread: position in _mic_monitor_thread
    t_est,                    \* per thread: segment_bpms, or <<quick_bpm>>
    t_now,                    \* per thread: now_ts
    pending_final,            \* queued root.after(0, _perform_final_mic_analysis)
    sessions,                 \* history: calls of _start_mic_monitoring
    sessions_stopped,         \* history: sessions _stop_mic_monitoring has ended
    finals_run,               \* history: runs of _perform_final_mic_analysis
    audio_in,                 \* batch check: the buffer handed to analyze_audio_segment
    bpm_out,                  \* batch check: its result
    an_pc,                    \* batch check: "ready" or "done"
    analyzer,                 \* self.analyzer: the fields of the BPMAnalyzer
    stage,                    \* stage check: the function applied, "none" for none
    stage_in,                 \* stage check: its argument
    stage_out,                \* stage check: its result
    feed,                     \* history check: the estimates of successive cycles
    cycles                    \* history check: stable-phase cycles begun

vars == << mic_recording, mic_stream, mic_buffer, mic_bpm_history, mic_bpm,
           mic_start_time, mic_last_bpm_sample_ts, mic_bpm_sample_interval,
           mic_time_bpm_pairs, recorded_mic_bpm_data, lists, final_mic_bpm,
           clock, stream, signal, delivered, cb_pc, t_pc, t_est, t_now, pending_final, sessions, sessions_stopped,
           finals_run, audio_in, bpm_out, an_pc, analyzer, stage, stage_in,
           stage_out,
           feed, cycles >>

batch_vars == << audio_in, bpm_out, an_pc, analyzer >>

stage_vars == << stage, stage_in, stage_out >>

feed_vars == << feed, cycles >>

thread_vars == << t_pc, t_est, t_now >>

capture_vars == << stream, signal, delivered, cb_pc >>

series_vars == << mic_time_bpm_pairs, recorded_mic_bpm_data, lists >>

history_vars == << sessions, sessions_stopped, finals_run >>

\* the pairs of the series, and of the frozen copy (empty when absent)
ListOf(ref) == IF ref = 0 THEN <<>> ELSE lists[ref]

Series == ListOf(mic_time_bpm_pairs)

Recorded == ListOf(recorded_mic_bpm_data)

\* a list object nothing else refers to (keep: the objects still referred
\* to), for a new list
FreshList(keep) == CHOOSE i \in ListIds : i \notin keep

\* the heap with the objects nothing refers to any more emptied
Collect(heap, live) == [i \in ListIds |-> IF i \in live THEN heap[i] ELSE <<>>]

(***************************************************************************)
(* BPMGUIApp.__init__                                                      *)
(***************************************************************************)
StreamingInit ==
    /\ mic_recording = FALSE
    /\ mic_stream = 0
    /\ mic_buffer = <<>>
    /\ mic_bpm_history = <<>>
    /\ mic_bpm = 0
    /\ mic_start_time = 0
    /\ mic_last_bpm_sample_ts = 0
    /\ mic_bpm_sample_interval = 2 * 3
    /\ mic_time_bpm_pairs = 0
    /\ recorded_mic_bpm_data = 0
    /\ lists = [i \in ListIds |-> <<>>]
    /\ final_mic_bpm = Absent
    /\ clock = 0
    /\ stream = [t \in Threads |-> "none"]
    /\ signal = [t \in Threads |-> 0]
    /\ delivered = [t \in Threads |-> 0]
    /\ cb_pc = [t \in Threads |-> "idle"]
    /\ t_pc = [t \in Threads |-> "none"]
    /\ t_est = [t \in Threads |-> <<>>]
    /\ t_now = [t \in Threads |-> 0]
    /\ pending_final = 0
    /\ sessions = 0
    /\ sessions_stopped = 0
    /\ finals_run = 0

\* no stage is applied on its own
NoStage ==
    /\ stage = "none"
    /\ stage_in = <<>>
    /\ stage_out = <<>>

\* the estimates of the update cycles come from the buffer
NoFeed ==
    /\ feed = <<>>
    /\ cycles = 0

\* no batch analysis is under way in the streaming specification
Init ==
    /\ StreamingInit
    /\ audio_in = <<>>
    /\ bpm_out = [err |-> FALSE, bpm |-> 0]
    /\ an_pc = "ready"
    /\ analyzer = AnalyzerFields
    /\ NoStage
    /\ NoFeed

(***************************************************************************)
(* Helpers of the monitor thread and of the final analysis                 *)
(***************************************************************************)
\* the sample the sound with click period p has at position n (amplitude 0.5)
Sample(p, n) == IF p > 0 /\ n % p = 0 THEN Unit \div 2 ELSE 0

\* indata.flatten() of the callback that follows `done` delivered samples
Chunk(p, done) == [i \in 1..mic_chunk_size |-> Sample(p, done + i - 1)]

\* analysis_buffer / max_val when max_val > 0, else analysis_buffer itself
PeakNormalized(buf) ==
    LET max_val == MaxSeq([i \in 1..Len(buf) |-> Abs(buf[i])])
    IN  IF max_val > 0
        THEN [i \in 1..Len(buf) |-> (buf[i] * Unit) \div max_val]
        ELSE buf

\* segment_samples = int(5 * mic_sample_rate); overlap_samples = half of it
segment_samples == 5 * mic_sample_rate

overlap_samples == (segment_samples * 5) \div 10

\* << start_idx, end_idx >> of the i-th segment (i = 0, 1, 2) of an analysis
\* buffer of n samples, as the slice analysis_buffer[start_idx:end_idx] takes them
StableSegmentRange(n, i) ==
    LET start_idx == Max2(0, n - segment_samples - i * overlap_samples)
    IN  << start_idx, Min2(n, start_idx + segment_samples) >>

\* the i-th (i = 0, 1, 2) segment of the stable phase:
\* start_idx = max(0, len(analysis_buffer) - segment_samples - i * overlap_samples)
StableSegment(analysis_buffer, i) ==
    LET start_idx == Max2(0, Len(analysis_buffer) - segment_samples
                             - i * overlap_samples)
    IN  SubSeq(analysis_buffer, start_idx + 1,
               Min2(Len(analysis_buffer), start_idx + segment_samples))

\* if bpm > 0: segment_bpms.append(bpm)
KeepPositive(r) == IF ~r.err /\ r.bpm > 0 THEN <<r.bpm>> ELSE <<>>

\* the BPMs > 0 among the analyses of the given segments, in order
RECURSIVE PositiveBpms(_)
PositiveBpms(segments) ==
    IF segments = <<>> THEN <<>>
    ELSE KeepPositive(analyze_audio_data(Head(segments), mic_sample_rate))
         \o PositiveBpms(Tail(segments))

\* segment_bpms of one stable-phase cycle over the buffer read
StableSegmentBpms(buffer) ==
    LET analysis_buffer == PeakNormalized(LastN(buffer, mic_sample_rate * 7))
    IN  PositiveBpms([i \in 1..3 |-> StableSegment(analysis_buffer, i - 1)])

\* quick_bpm of one cold-start cycle over the buffer read
QuickBpm(buffer) ==
    analyze_audio_data(PeakNormalized(LastN(buffer, mic_sample_rate * 2)),
                       mic_sample_rate).bpm

\* the 3-point median filter: the two ends pass through
MedianFiltered(h) ==
    [i \in 1..Len(h) |->
        IF i = 1 \/ i = Len(h) THEN h[i] ELSE Median(SubSeq(h, i - 1, i + 1))]

\* the moving average with the two weights exchanged
RECURSIVE EmaSwapped(_, _)
EmaSwapped(ema_bpm, rest) ==
    IF rest = <<>> THEN ema_bpm
    ELSE EmaSwapped((7 * Head(rest) + 3 * ema_bpm) \div 10, Tail(rest))

\* ema_bpm = alpha * bpm + (1 - alpha) * ema_bpm with alpha = 0.3
RECURSIVE Ema(_, _)
Ema(ema_bpm, rest) ==
    IF rest = <<>> THEN ema_bpm
    ELSE Ema((3 * Head(rest) + 7 * ema_bpm) \div 10, Tail(rest))

\* the moving average seeded by 0 instead of by the first filtered value
SmoothedFromZero(h) ==
    IF Len(h) >= 3
    THEN Ema(0, MedianFiltered(h))
    ELSE Median(h)

\* the live BPM computed from the history
SmoothedBpm(h) ==
    IF Len(h) >= 3
    THEN LET median_filtered == MedianFiltered(h)
         IN  Ema(median_filtered[1], Tail(median_filtered))
    ELSE Median(h)

\* the history cut at the other end: the first history_size entries are kept
HistoryKeepOldest(h, current_bpm) ==
    SubSeq(Append(h, current_bpm), 1, Min2(Len(h) + 1, history_size))

\* the history after current_bpm is appended, cut to history_size
HistoryWith(h, current_bpm) == LastN(Append(h, current_bpm), history_size)

\* the segments of the final analysis stepped by their own length
FinalRangesWithoutOverlap(n) ==
    LET num_segments ==
            IF n >= segment_samples
            THEN Min2(Max2(1, ((n - segment_samples) \div overlap_samples) + 1), 5)
            ELSE 0
    IN  [k \in 1..num_segments |->
            LET start_idx == Min2((k - 1) * segment_samples, n - segment_samples)
            IN  << start_idx, start_idx + segment_samples >>]

\* << start_idx, end_idx >> of the segments of the final analysis of a
\* buffer of n samples
FinalSegmentRanges(n) ==
    LET num_segments ==
            IF n >= segment_samples
            THEN Min2(Max2(1, ((n - segment_samples) \div overlap_samples) + 1), 5)
            ELSE 0
    IN  [k \in 1..num_segments |->
            LET start_idx == Min2((k - 1) * overlap_samples, n - segment_samples)
            IN  << start_idx, start_idx + segment_samples >>]

\* the segments of the final analysis:
\* segment = full_buffer[start_idx:end_idx]
FinalSegments(full_buffer) ==
    [k \in 1..Len(FinalSegmentRanges(Len(full_buffer))) |->
        SubSeq(full_buffer,
               FinalSegmentRanges(Len(full_buffer))[k][1] + 1,
               FinalSegmentRanges(Len(full_buffer))[k][2])]

\* the whole buffer is analysed when no segment gave a BPM
FinalSegmentBpms(full_buffer, segment_bpms) ==
    IF segment_bpms = <<>> THEN PositiveBpms(<<full_buffer>>) ELSE segment_bpms

\* the median of the segment BPMs, the smallest and the largest dropped
\* when there are more than 3; 0 when there is none
TrimmedMedian(segment_bpms) ==
    IF segment_bpms = <<>> THEN 0
    ELSE IF Len(segment_bpms) > 3
    THEN Median(SubSeq(Sorted(segment_bpms), 2, Len(segment_bpms) - 1))
    ELSE Median(segment_bpms)

\* final_mic_bpm of a non-empty full_buffer
FinalBpm(full_buffer) ==
    TrimmedMedian(FinalSegmentBpms(full_buffer,
                                   PositiveBpms(FinalSegments(full_buffer))))

(***************************************************************************)
(* The analyses of the buffers the capture callbacks can leave.  A buffer  *)
(* is the end of a run of captured chunks, so there are few of them, and   *)
(* each is analysed here once, by the operators above, instead of once in  *)
(* every state it occurs in.                                               *)
(***************************************************************************)
\* the chunks a stream can deliver
ChunkKinds ==
    {Chunk(p, j * mic_chunk_size) : p \in Signals, j \in 0..(MaxChunks - 1)}

\* the runs of n chunks
RECURSIVE ChunkRuns(_)
ChunkRuns(n) ==
    IF n = 0 THEN {<<>>}
    ELSE {r \o c : r \in ChunkRuns(n - 1), c \in ChunkKinds}

\* the lengths a buffer can have: whole chunks, or chunks after a truncation
BufferLengths ==
    {j * mic_chunk_size : j \in 1..MaxChunks}
        \cup {max_buffer_size + j * mic_chunk_size : j \in 0..MaxChunks}

CapturedBuffers ==
    {LastN(r, n) : r \in UNION {ChunkRuns(k) : k \in 1..MaxChunks},
                   n \in BufferLengths}

\* per captured buffer: segment_bpms of a stable-phase cycle, quick_bpm of a
\* cold-start cycle and final_mic_bpm of the final analysis
Analysed ==
    [b \in CapturedBuffers |->
        [stable |-> IF Len(b) >= mic_sample_rate * 7
                    THEN StableSegmentBpms(b) ELSE <<>>,
         quick  |-> IF Len(b) >= mic_sample_rate * 2 THEN QuickBpm(b) ELSE 0,
         final  |-> FinalBpm(b)]] @@ <<>>

(***************************************************************************)
(* The main loop: toggle_mic_monitor, the dropdown, the queued callbacks   *)
(***************************************************************************)
\* the series a session starts with
InitialSeries == << <<0, 0>> >>

\* _start_mic_monitoring, called by toggle_mic_monitor when not recording
StartMicMonitoring ==
    /\ ~mic_recording
    /\ sessions < MaxSessions
    /\ LET new == FreshList({recorded_mic_bpm_data})
       IN  /\ mic_time_bpm_pairs' = new
           /\ lists' = Collect([lists EXCEPT ![new] = InitialSeries],
                               {new, recorded_mic_bpm_data})
    /\ mic_recording' = TRUE
    /\ mic_buffer' = <<>>
    /\ mic_bpm_history' = <<>>
    /\ mic_start_time' = clock
    /\ \E val \in Intervals : mic_bpm_sample_interval' = val
    /\ mic_last_bpm_sample_ts' = clock
    /\ sessions' = sessions + 1
    /\ t_pc' = [t_pc EXCEPT ![sessions + 1] = "open"]
    /\ UNCHANGED << mic_stream, mic_bpm, recorded_mic_bpm_data, final_mic_bpm, clock, capture_vars, t_est, t_now,
                    pending_final, sessions_stopped, finals_run,
                    batch_vars, stage_vars, feed_vars >>

\* the stop keeps a reference to the series itself instead of a copy
FrozenAliasRef(new) == mic_time_bpm_pairs

\* the list object recorded_mic_bpm_data refers to after the stop: a new one
\* (self.mic_time_bpm_pairs.copy(), or []), never the series itself
FrozenCopyRef(new) == new

\* _stop_mic_monitoring, whoever calls it.  mic_stream.stop() returns once
\* the stream's callback has returned.
stop_mic_monitoring ==
    /\ mic_stream # 0 => cb_pc[mic_stream] = "idle"
    /\ mic_recording' = FALSE
    /\ stream' = IF mic_stream # 0
                 THEN [stream EXCEPT ![mic_stream] = "closed"]
                 ELSE stream
    /\ signal' = IF mic_stream # 0
                 THEN [signal EXCEPT ![mic_stream] = 0]
                 ELSE signal
    /\ mic_stream' = 0
    /\ LET new == FrozenCopyRef(FreshList({mic_time_bpm_pairs}))
       IN  /\ recorded_mic_bpm_data' = new
           /\ lists' = Collect([lists EXCEPT ![new] = Series],
                               {new, mic_time_bpm_pairs})
    /\ pending_final' = IF mic_buffer # <<>> THEN pending_final + 1
                        ELSE pending_final
    /\ sessions_stopped' = IF mic_recording THEN sessions_stopped + 1
                           ELSE sessions_stopped
    /\ UNCHANGED << mic_buffer, mic_bpm_history, mic_bpm, mic_start_time,
                    mic_last_bpm_sample_ts, mic_bpm_sample_interval,
                    mic_time_bpm_pairs, final_mic_bpm, clock,
                    delivered, cb_pc, t_est, t_now, sessions,
                    finals_run, batch_vars, stage_vars, feed_vars >>

\* toggle_mic_monitor while recording
StopMicMonitoring ==
    /\ mic_recording
    /\ stop_mic_monitoring
    /\ UNCHANGED t_pc

\* _perform_final_mic_analysis, queued by the stop: analyse the whole
\* buffer, set final_mic_bpm and clear the buffer
PerformFinalMicAnalysis ==
    /\ pending_final > 0
    /\ pending_final' = pending_final - 1
    /\ finals_run' = finals_run + 1
    /\ final_mic_bpm' = IF mic_buffer = <<>> THEN 0 ELSE Analysed[mic_buffer].final
    /\ mic_buffer' = <<>>
    /\ UNCHANGED << mic_recording, mic_stream, mic_bpm_history, mic_bpm,
                    mic_start_time, mic_last_bpm_sample_ts,
                    mic_bpm_sample_interval, series_vars, clock, capture_vars,
                    thread_vars, sessions, sessions_stopped, batch_vars, stage_vars, feed_vars >>

(***************************************************************************)
(* The capture callback of thread t's input stream (audio_callback)        *)
(***************************************************************************)
\* self.mic_buffer.extend(indata.flatten())
CallbackExtend(t) ==
    /\ stream[t] = "active"
    /\ cb_pc[t] = "idle"
    /\ SumSeq(delivered) < MaxChunks * mic_chunk_size
    /\ mic_buffer' = mic_buffer \o Chunk(signal[t], delivered[t])
    /\ delivered' = [delivered EXCEPT ![t] = @ + mic_chunk_size]
    /\ cb_pc' = [cb_pc EXCEPT ![t] = "truncate"]
    /\ UNCHANGED << mic_recording, mic_stream, mic_bpm_history, mic_bpm,
                    mic_start_time, mic_last_bpm_sample_ts,
                    mic_bpm_sample_interval, series_vars, final_mic_bpm, clock,
                    stream, signal, thread_vars, pending_final,
                    history_vars, batch_vars, stage_vars, feed_vars >>

\* the callback keeps the oldest max_buffer_size samples instead
TruncatedOldest(buffer) ==
    IF Len(buffer) > max_buffer_size THEN SubSeq(buffer, 1, max_buffer_size)
    ELSE buffer

\* the buffer the callback leaves: the last max_buffer_size samples
Truncated(buffer) ==
    IF Len(buffer) > max_buffer_size THEN LastN(buffer, max_buffer_size)
    ELSE buffer

\* if len(self.mic_buffer) > max_buffer_size: keep the last max_buffer_size
CallbackTruncate(t) ==
    /\ cb_pc[t] = "truncate"
    /\ mic_buffer' = Truncated(mic_buffer)
    /\ cb_pc' = [cb_pc EXCEPT ![t] = "idle"]
    /\ UNCHANGED << mic_recording, mic_stream, mic_bpm_history, mic_bpm,
                    mic_start_time, mic_last_bpm_sample_ts,
                    mic_bpm_sample_interval, series_vars, final_mic_bpm, clock,
                    stream, signal, delivered, thread_vars, pending_final, history_vars, batch_vars, stage_vars, feed_vars >>

(***************************************************************************)
(* The monitor thread t (_mic_monitor_thread)                              *)
(***************************************************************************)
shared_unchanged_by_thread ==
    UNCHANGED << mic_recording, mic_buffer, mic_start_time,
                 mic_bpm_sample_interval, mic_time_bpm_pairs,
                 recorded_mic_bpm_data, final_mic_bpm, clock, delivered, cb_pc,
                 pending_final, history_vars, batch_vars, stage_vars, feed_vars >>

\* time.sleep(0.5): the thread is back at the loop test one tick later
Sleeping(t) ==
    /\ t_pc' = [t_pc EXCEPT ![t] = "sleep"]
    /\ t_est' = [t_est EXCEPT ![t] = <<>>]
    /\ t_now' = [t_now EXCEPT ![t] = 0]

\* sd.InputStream(...) and mic_stream.start(): the stream captures some sound
OpenStream(t) ==
    /\ t_pc[t] = "open"
    /\ \E p \in Signals : signal' = [signal EXCEPT ![t] = p]
    /\ stream' = [stream EXCEPT ![t] = "active"]
    /\ mic_stream' = t
    /\ t_pc' = [t_pc EXCEPT ![t] = "loop"]
    /\ shared_unchanged_by_thread
    /\ UNCHANGED << mic_bpm_history, mic_bpm, mic_last_bpm_sample_ts, lists,
                    t_est, t_now >>

\* sd.InputStream(...) raises (no input device): except, then finally
OpenStreamFails(t) ==
    /\ t_pc[t] = "open"
    /\ t_pc' = [t_pc EXCEPT ![t] = "finally"]
    /\ shared_unchanged_by_thread
    /\ UNCHANGED << mic_stream, mic_bpm_history, mic_bpm,
                    mic_last_bpm_sample_ts, lists, stream, signal, t_est,
                    t_now >>

\* the thread is at the loop test
AtLoopTest(t) == t_pc[t] = "loop"

\* while self.mic_recording: false, the loop ends
ExitLoop(t) ==
    /\ AtLoopTest(t)
    /\ ~mic_recording
    /\ t_pc' = [t_pc EXCEPT ![t] = "finally"]
    /\ shared_unchanged_by_thread
    /\ UNCHANGED << mic_stream, mic_bpm_history, mic_bpm,
                    mic_last_bpm_sample_ts, lists, stream, signal, t_est,
                    t_now >>

\* stable phase: copy the last 7 s, analyse three segments
AnalyzeStable(t) ==
    /\ AtLoopTest(t)
    /\ mic_recording
    /\ Len(mic_buffer) >= mic_sample_rate * 7
    /\ t_est' = [t_est EXCEPT ![t] = Analysed[mic_buffer].stable]
    /\ t_pc' = [t_pc EXCEPT ![t] = "stable"]
    /\ shared_unchanged_by_thread
    /\ UNCHANGED << mic_stream, mic_bpm_history, mic_bpm,
                    mic_last_bpm_sample_ts, lists, stream, signal, t_now >>

\* cold start: copy the last 2 s, analyse them once
AnalyzeCold(t) ==
    /\ AtLoopTest(t)
    /\ mic_recording
    /\ Len(mic_buffer) < mic_sample_rate * 7
    /\ Len(mic_buffer) >= mic_sample_rate * 2
    /\ t_est' = [t_est EXCEPT ![t] = <<Analysed[mic_buffer].quick>>]
    /\ t_pc' = [t_pc EXCEPT ![t] = "cold"]
    /\ shared_unchanged_by_thread
    /\ UNCHANGED << mic_stream, mic_bpm_history, mic_bpm,
                    mic_last_bpm_sample_ts, lists, stream, signal, t_now >>

\* less than 2 s buffered: nothing but the sleep
PollTooShort(t) ==
    /\ AtLoopTest(t)
    /\ mic_recording
    /\ Len(mic_buffer) < mic_sample_rate * 2
    /\ Sleeping(t)
    /\ shared_unchanged_by_thread
    /\ UNCHANGED << mic_stream, mic_bpm_history, mic_bpm,
                    mic_last_bpm_sample_ts, lists, stream, signal >>

\* now_ts - last_ts >= interval, read from the clock and the shared fields
SampleDue(now_ts) == now_ts - mic_last_bpm_sample_ts >= mic_bpm_sample_interval

\* now_ts = time.time() and the interval test: on to the append when the
\* interval has passed, else to the sleep
Stamp(t) ==
    IF SampleDue(clock)
    THEN /\ t_now' = [t_now EXCEPT ![t] = clock]
         /\ t_pc' = [t_pc EXCEPT ![t] = "append"]
         /\ t_est' = [t_est EXCEPT ![t] = <<>>]
    ELSE Sleeping(t)

\* stable phase: the consensus goes to the history and the live BPM is
\* smoothed from it; without a valid segment both stay.  Then the sampling.
UpdateStable(t) ==
    /\ t_pc[t] = "stable"
    /\ IF t_est[t] # <<>>
       THEN /\ mic_bpm_history' = HistoryWith(mic_bpm_history, Median(t_est[t]))
            /\ mic_bpm' = SmoothedBpm(mic_bpm_history')
       ELSE UNCHANGED << mic_bpm_history, mic_bpm >>
    /\ Stamp(t)
    /\ shared_unchanged_by_thread
    /\ UNCHANGED << mic_stream, mic_last_bpm_sample_ts, lists, stream, signal >>

\* the cold start feeding the history as the stable phase does
UpdateColdIntoHistory(t) ==
    /\ t_pc[t] = "cold"
    /\ t_est[t][1] > 0
    /\ mic_bpm' = t_est[t][1]
    /\ mic_bpm_history' = HistoryWith(mic_bpm_history, t_est[t][1])
    /\ Stamp(t)
    /\ shared_unchanged_by_thread
    /\ UNCHANGED << mic_stream, mic_last_bpm_sample_ts, lists, stream, signal >>

\* cold start with quick_bpm > 0: it becomes the live BPM.  Then the sampling.
UpdateCold(t) ==
    /\ t_pc[t] = "cold"
    /\ t_est[t][1] > 0
    /\ mic_bpm' = t_est[t][1]
    /\ Stamp(t)
    /\ shared_unchanged_by_thread
    /\ UNCHANGED << mic_stream, mic_bpm_history, mic_last_bpm_sample_ts, lists,
                    stream, signal >>

\* cold start with quick_bpm <= 0: straight to the sleep
SkipCold(t) ==
    /\ t_pc[t] = "cold"
    /\ t_est[t][1] <= 0
    /\ Sleeping(t)
    /\ shared_unchanged_by_thread
    /\ UNCHANGED << mic_stream, mic_bpm_history, mic_bpm,
                    mic_last_bpm_sample_ts, lists, stream, signal >>

\* the pair appended: (now_ts - self.mic_start_time, self.mic_bpm)
SamplePair(now_ts) == << now_ts - mic_start_time, mic_bpm >>

\* self.mic_time_bpm_pairs.append(...); self.mic_last_bpm_sample_ts = now_ts
AppendPair(t) ==
    /\ t_pc[t] = "append"
    /\ lists' = [lists EXCEPT ![mic_time_bpm_pairs] =
                     Append(@, SamplePair(t_now[t]))]
    /\ mic_last_bpm_sample_ts' = t_now[t]
    /\ Sleeping(t)
    /\ shared_unchanged_by_thread
    /\ UNCHANGED << mic_stream, mic_bpm_history, mic_bpm, stream, signal >>

\* finally: self._stop_mic_monitoring()
ThreadStops(t) ==
    /\ t_pc[t] = "finally"
    /\ stop_mic_monitoring
    /\ t_pc' = [t_pc EXCEPT ![t] = "done"]

\* time passes: one tick of 0.5 s, which ends the sleeps.  time.time() is
\* read by the monitor threads only, so the clock stands still while none
\* of them is alive.
Tick ==
    /\ clock < MaxClock
    /\ \E t \in Threads : t_pc[t] \notin {"none", "done"}
    /\ clock' = clock + SleepTicks
    /\ t_pc' = [t \in Threads |-> IF t_pc[t] = "sleep" THEN "loop" ELSE t_pc[t]]
    /\ UNCHANGED << mic_recording, mic_stream, mic_buffer, mic_bpm_history,
                    mic_bpm, mic_start_time, mic_last_bpm_sample_ts,
                    mic_bpm_sample_interval, series_vars, final_mic_bpm,
                    capture_vars, t_est, t_now, pending_final,
                    history_vars, batch_vars, stage_vars, feed_vars >>

Next ==
    \/ StartMicMonitoring
    \/ StopMicMonitoring
    \/ PerformFinalMicAnalysis
    \/ Tick
    \/ \E t \in Threads :
        \/ CallbackExtend(t)
        \/ CallbackTruncate(t)
        \/ OpenStream(t)
        \/ OpenStreamFails(t)
        \/ ExitLoop(t)
        \/ AnalyzeStable(t)
        \/ AnalyzeCold(t)
        \/ PollTooShort(t)
        \/ UpdateStable(t)
        \/ UpdateCold(t)
        \/ SkipCold(t)
        \/ AppendPair(t)
        \/ ThreadStops(t)

Spec == Init /\ [][Next]_vars

(***************************************************************************)
(* The batch pipeline on its own: analyze_audio_segment applied to one     *)
(* buffer drawn from TestBuffers                                           *)
(***************************************************************************)
\* bounds of the buffers drawn
MaxShort == 4

MaxSilent == 12

MaxTrain == 20

\* sample values: -1.0, 0 and 0.5
Amplitudes == {0 - Unit, 0, Unit \div 2}

\* every buffer of at most MaxShort samples
ShortBuffers == UNION {[1..n -> Amplitudes] : n \in 0..MaxShort}

\* the all-zero buffers of at most MaxSilent samples
SilentBuffers == {[i \in 1..n |-> 0] : n \in 0..MaxSilent}

\* click trains: a click every p samples from offset o on, n samples long
ClickTrains ==
    {[i \in 1..n |-> IF (i - 1) % p = o THEN Unit \div 2 ELSE 0] :
        p \in {3, 6, 8}, o \in {0, 1}, n \in (MaxTrain - 4)..MaxTrain}

TestBuffers == ShortBuffers \cup SilentBuffers \cup ClickTrains

InitAnalyze ==
    /\ StreamingInit
    /\ audio_in \in TestBuffers
    /\ bpm_out = [err |-> FALSE, bpm |-> 0]
    /\ an_pc = "ready"
    /\ analyzer = AnalyzerFields
    /\ NoStage
    /\ NoFeed

\* the call with the samples normalised in place:
\* audio_data /= np.max(np.abs(audio_data))
AnalyzeSegmentInPlace ==
    /\ an_pc = "ready"
    /\ bpm_out' = analyze_audio_segment(audio_in, mic_sample_rate)
    /\ audio_in' = IF audio_in = <<>> THEN audio_in
                   ELSE NormalizeByPeak(audio_in)
    /\ an_pc' = "done"
    /\ UNCHANGED << analyzer, mic_recording, mic_stream, mic_buffer,
                    mic_bpm_history, mic_bpm, mic_start_time,
                    mic_last_bpm_sample_ts, mic_bpm_sample_interval,
                    series_vars, final_mic_bpm, clock, capture_vars,
                    thread_vars, pending_final, history_vars, stage_vars,
                    feed_vars >>

\* bpm = analyzer.analyze_audio_segment(audio_in, sample_rate)
AnalyzeSegment ==
    /\ an_pc = "ready"
    /\ bpm_out' = analyze_audio_segment(audio_in, mic_sample_rate)
    /\ an_pc' = "done"
    /\ UNCHANGED << audio_in, analyzer, mic_recording, mic_stream, mic_buffer,
                    mic_bpm_history, mic_bpm, mic_start_time,
                    mic_last_bpm_sample_ts, mic_bpm_sample_interval,
                    series_vars, final_mic_bpm, clock, capture_vars,
                    thread_vars, pending_final, history_vars, stage_vars,
                    feed_vars >>

NextAnalyze == AnalyzeSegment

SpecAnalyze == InitAnalyze /\ [][NextAnalyze]_vars

(***************************************************************************)
(* Repeated calls of analyze_audio_segment on one analyzer: the samples    *)
(* and the result of the first call are remembered in stage_in and         *)
(* stage_out, cycles counts the calls that have returned before this one   *)
(***************************************************************************)
\* bound of the calls made
MaxCalls == 3

\* the buffers handed to the calls
CallBuffers == SilentBuffers \cup ClickTrains

InitCalls ==
    /\ StreamingInit
    /\ audio_in \in CallBuffers
    /\ bpm_out = [err |-> FALSE, bpm |-> 0]
    /\ an_pc = "ready"
    /\ analyzer = AnalyzerFields
    /\ stage = "analyze_audio_segment"
    /\ stage_in = <<>>
    /\ stage_out = <<>>
    /\ NoFeed

\* the caller takes the result and prepares the next call with samples of
\* its own; the first call's samples and result are remembered
NextSamples ==
    /\ an_pc = "done"
    /\ cycles < MaxCalls - 1
    /\ \E samples \in CallBuffers : audio_in' = samples
    /\ an_pc' = "ready"
    /\ cycles' = cycles + 1
    /\ stage_in' = IF cycles = 0 THEN audio_in ELSE stage_in
    /\ stage_out' = IF cycles = 0 THEN bpm_out ELSE stage_out
    /\ UNCHANGED << bpm_out, analyzer, stage, feed, mic_recording, mic_stream,
                    mic_buffer, mic_bpm_history, mic_bpm, mic_start_time,
                    mic_last_bpm_sample_ts, mic_bpm_sample_interval,
                    series_vars, final_mic_bpm, clock, capture_vars,
                    thread_vars, pending_final, history_vars >>

NextCalls == AnalyzeSegment \/ NextSamples

SpecCalls == InitCalls /\ [][NextCalls]_vars

(***************************************************************************)
(* The stages of the pipeline on their own: one function applied to one    *)
(* argument drawn from the set of its stage                                *)
(***************************************************************************)
\* bounds of the arguments drawn
MaxPeakFrame == 12

MaxPeaks == 4

MaxBeats == 3

MaxCandidates == 5

\* the hop size and the sample rate of the program, which place a frame
\* every 11.6 ms: the beat times of this stage are the program's own
program_hop_size == 512

program_sample_rate == 44100

\* the frame indices of the peaks of an onset curve: increasing, and no two
\* adjacent, a peak being higher than both its neighbours
PeakLists ==
    {p \in UNION {[1..n -> 1..MaxPeakFrame] : n \in 0..MaxPeaks} :
        \A k \in 1..(Len(p) - 1) : p[k + 1] >= p[k] + 2}

\* beat times in milliseconds
BeatGrid == {0, 500, 750, 1000, 2000, 2250, 3500}

BeatLists == UNION {[1..n -> BeatGrid] : n \in 0..MaxBeats}

\* candidates: 59, 60, 61 and 200 BPM
CandidateValues == {5900, 6000, 6100, 20000}

CandidateLists == UNION {[1..n -> CandidateValues] : n \in 0..MaxCandidates}

\* the beats _detect_beats_improved returns for peaks at the given frames
BeatsOfPeaks(peaks) ==
    RefineBeats(<<>>, [k \in 1..Len(peaks) |-> BeatTime(program_hop_size * peaks[k],
                                               program_sample_rate)])

\* what analyze_audio_data makes of the candidates: those the IQR filter
\* keeps, and the BPM
Aggregated(bpm_candidates) ==
    [filtered |-> filter_outliers_iqr(bpm_candidates),
     bpm      |-> BpmOfCandidates(bpm_candidates)]

\* the pairs (time, BPM) of a series: no estimate (0), 60 and 90 BPM
MaxPairs == 4

PairLists == UNION {[1..n -> {<<0, 0>>, <<3, 6000>>, <<6, 9000>>}] : n \in 0..MaxPairs}

\* the frame and hop sizes an analyzer can be constructed with
ConfigValues == {0 - 1, 0, 1, 2, 3}

\* BPMAnalyzer(frame_size, hop_size): the arguments are stored as they
\* are, nothing is raised
BPMAnalyzerInit(frame_size_arg, hop_size_arg) ==
    [err |-> FALSE, frame_size |-> frame_size_arg, hop_size |-> hop_size_arg]

\* bpm_values = [bpm for _, bpm in pairs]
BpmValues(pairs) == [i \in 1..Len(pairs) |-> pairs[i][2]]

\* [float(b) for _, b in data if float(b) > 0]
PositiveBpmValues(data) == SelectSeq(BpmValues(data), LAMBDA b : b > 0)

MinSeq(s) ==
    LET i == CHOOSE i \in 1..Len(s) : \A j \in 1..Len(s) : s[i] <= s[j]
    IN  s[i]

\* np.std of a non-empty sequence: sqrt(mean(x^2) - mean(x)^2)
Std(s) ==
    Isqrt((Len(s) * SumSqSeq(s) - SumSeq(s) * SumSeq(s)) \div (Len(s) * Len(s)))

\* np.mean, np.min, np.max and np.std of the values
StatsOf(bpm_values) ==
    [avg |-> Mean(bpm_values), min |-> MinSeq(bpm_values),
     max |-> MaxSeq(bpm_values), std |-> Std(bpm_values)]

\* _analyze_file_thread: avg_bpm over all the pairs of the file's series;
\* nothing is displayed for an empty series
overall_bpm(time_bpm_pairs) ==
    IF time_bpm_pairs = <<>> THEN Absent ELSE Mean(BpmValues(time_bpm_pairs))

\* _create_bpm_stats_label: the statistics of all the pairs of the file's
\* series; "No statistics available" for an empty series
create_bpm_stats_label(time_bpm_pairs) ==
    IF time_bpm_pairs = <<>> THEN [avg |-> Absent, min |-> Absent,
                                   max |-> Absent, std |-> Absent]
    ELSE StatsOf(BpmValues(time_bpm_pairs))

\* show_mic_bpm_timeseries: the statistics of the pairs with a BPM > 0,
\* all 0 when there is none
mic_series_stats(data) ==
    IF PositiveBpmValues(data) = <<>>
    THEN [avg |-> 0, min |-> 0, max |-> 0, std |-> 0]
    ELSE StatsOf(PositiveBpmValues(data))

\* the statistics the program derives from one series
Statistics(pairs) ==
    [overall |-> overall_bpm(pairs),
     file    |-> create_bpm_stats_label(pairs),
     mic     |-> mic_series_stats(pairs)]

\* the buffers handed to the final analysis: runs of blocks of 2.5 s, each
\* silent or a click train of period 0.5 s or 0.75 s
MaxBlocks == 6

FinalBuffers ==
    UNION {{[i \in 1..(n * overlap_samples) |->
                Sample(periods[((i - 1) \div overlap_samples) + 1],
                       (i - 1) % overlap_samples)] :
            periods \in [1..n -> {0, 4, 6}]} : n \in 0..MaxBlocks}

\* the consensus of _perform_final_mic_analysis over segment_bpms, the
\* BPMs > 0 of the segments cut (of the whole buffer when there is none)
FinalConsensus(ranges, segment_bpms) ==
    [ranges        |-> ranges,
     segment_bpms  |-> segment_bpms,
     final_mic_bpm |-> TrimmedMedian(segment_bpms)]

\* _perform_final_mic_analysis on full_buffer
perform_final_mic_analysis(full_buffer) ==
    IF full_buffer = <<>>
    THEN [ranges |-> <<>>, segment_bpms |-> <<>>, final_mic_bpm |-> 0]
    ELSE FinalConsensus(FinalSegmentRanges(Len(full_buffer)),
                        FinalSegmentBpms(full_buffer,
                            PositiveBpms(FinalSegments(full_buffer))))

\* the buffers handed to _detect_beats_improved: those of the batch check
\* and the buffers of 5 s, which hold more frames than the threshold window
DetectBuffers ==
    TestBuffers \cup {b \in FinalBuffers : Len(b) = segment_samples}

\* _detect_beats_improved with its intermediate lists: energy,
\* spectral_flux, combined_onset, the peak frames and the beats
detect_beats_steps(audio_data, sample_rate) ==
    IF audio_data = <<>>
    THEN [err |-> TRUE, energy |-> <<>>, spectral_flux |-> <<>>,
          combined_onset |-> <<>>, peaks |-> <<>>, beats |-> <<>>]
    ELSE [err            |-> FALSE,
          energy         |-> Energy(NormalizeByPeak(audio_data)),
          spectral_flux  |-> calculate_spectral_flux(NormalizeByPeak(audio_data)),
          combined_onset |-> CombinedOnset(
                                 Energy(NormalizeByPeak(audio_data)),
                                 calculate_spectral_flux(NormalizeByPeak(audio_data))),
          peaks          |-> PeakFrames(CombinedOnset(
                                 Energy(NormalizeByPeak(audio_data)),
                                 calculate_spectral_flux(NormalizeByPeak(audio_data)))),
          beats          |-> detect_beats_improved(audio_data, sample_rate).beats]

StageDraws ==
    \/ stage = "refine_beats" /\ stage_in \in PeakLists
    \/ stage = "calculate_bpm_candidates" /\ stage_in \in BeatLists
    \/ stage = "aggregate" /\ stage_in \in CandidateLists
    \/ stage = "statistics" /\ stage_in \in PairLists
    \/ stage = "BPMAnalyzer" /\ stage_in \in ConfigValues \X ConfigValues
    \/ stage = "perform_final_mic_analysis" /\ stage_in \in FinalBuffers
    \/ stage = "detect_beats_improved" /\ stage_in \in DetectBuffers

InitStages ==
    /\ StreamingInit
    /\ audio_in = <<>>
    /\ bpm_out = [err |-> FALSE, bpm |-> 0]
    /\ an_pc = "ready"
    /\ analyzer = AnalyzerFields
    /\ NoFeed
    /\ stage_out = <<>>
    /\ StageDraws

\* the stage named is applied: its result is `out`
Applied(name, out) ==
    /\ an_pc = "ready"
    /\ stage = name
    /\ stage_out' = out
    /\ an_pc' = "done"
    /\ UNCHANGED << stage, stage_in, audio_in, bpm_out, analyzer, mic_recording,
                    mic_stream, mic_buffer, mic_bpm_history, mic_bpm,
                    mic_start_time, mic_last_bpm_sample_ts,
                    mic_bpm_sample_interval, series_vars, final_mic_bpm,
                    clock, capture_vars, thread_vars, pending_final,
                    history_vars, feed_vars >>

\* the refractory merge at the end of _detect_beats_improved
RefineStage == Applied("refine_beats", BeatsOfPeaks(stage_in))

\* bpm_candidates = self._calculate_bpm_candidates(beats, sample_rate)
CandidateStage ==
    Applied("calculate_bpm_candidates", calculate_bpm_candidates(stage_in))

\* filtered_bpm = self._filter_outliers_iqr(bpm_candidates) and the return
AggregateStage == Applied("aggregate", Aggregated(stage_in))

\* the statistics shown for a series
StatisticsStage == Applied("statistics", Statistics(stage_in))

\* self.analyzer = BPMAnalyzer(frame_size, hop_size)
ConstructStage ==
    Applied("BPMAnalyzer", BPMAnalyzerInit(stage_in[1], stage_in[2]))

\* self._perform_final_mic_analysis() with mic_buffer = stage_in
FinalStage ==
    Applied("perform_final_mic_analysis", perform_final_mic_analysis(stage_in))

\* beats = self._detect_beats_improved(audio_data, sample_rate)
DetectStage ==
    Applied("detect_beats_improved",
            detect_beats_steps(stage_in, mic_sample_rate))

NextStages ==
    \/ RefineStage
    \/ CandidateStage
    \/ AggregateStage
    \/ StatisticsStage
    \/ ConstructStage
    \/ FinalStage
    \/ DetectStage

SpecStages == InitStages /\ [][NextStages]_vars

(***************************************************************************)
(* The stable phase on its own: one session whose buffer holds 10 s of     *)
(* audio, the monitor thread at its loop test.  The per-window estimates   *)
(* of the successive cycles are drawn, as a repeating pattern, instead of  *)
(* computed from the buffer, so that the history can fill with values of   *)
(* every kind; what the thread does with them is the thread's own code.    *)
(***************************************************************************)
\* bounds of the cycles run and of the length of the pattern
MaxCycles == 22

MaxFeed == 3

\* segment_bpms of one cycle: the estimates > 0 of the three windows
EstimateLists == {<<>>, <<9000>>, <<12000, 9000>>, <<9000, 12000, 18000>>}

Feeds == UNION {[1..n -> EstimateLists] : n \in 1..MaxFeed}

\* the state after _start_mic_monitoring, the opening of the stream and two
\* callbacks, before the first polling cycle
InitHistory ==
    /\ mic_recording = TRUE
    /\ mic_stream = 1
    /\ mic_buffer = Truncated(Chunk(6, 0) \o Chunk(6, mic_chunk_size))
    /\ mic_bpm_history = <<>>
    /\ mic_bpm = 0
    /\ mic_start_time = 0
    /\ mic_last_bpm_sample_ts = 0
    /\ mic_bpm_sample_interval \in Intervals
    /\ mic_time_bpm_pairs = 1
    /\ recorded_mic_bpm_data = 0
    /\ lists = [i \in ListIds |-> IF i = 1 THEN InitialSeries ELSE <<>>]
    /\ final_mic_bpm = Absent
    /\ clock = 0
    /\ stream = [t \in Threads |-> IF t = 1 THEN "active" ELSE "none"]
    /\ signal = [t \in Threads |-> IF t = 1 THEN 6 ELSE 0]
    /\ delivered = [t \in Threads |-> IF t = 1 THEN 2 * mic_chunk_size ELSE 0]
    /\ cb_pc = [t \in Threads |-> "idle"]
    /\ t_pc = [t \in Threads |-> IF t = 1 THEN "loop" ELSE "none"]
    /\ t_est = [t \in Threads |-> <<>>]
    /\ t_now = [t \in Threads |-> 0]
    /\ pending_final = 0
    /\ sessions = 1
    /\ sessions_stopped = 0
    /\ finals_run = 0
    /\ audio_in = <<>>
    /\ bpm_out = [err |-> FALSE, bpm |-> 0]
    /\ an_pc = "ready"
    /\ analyzer = AnalyzerFields
    /\ NoStage
    /\ feed \in Feeds
    /\ cycles = 0

\* stable phase: the three windows are analysed, their estimates > 0 are
\* the next of the pattern
FeedStable(t) ==
    /\ AtLoopTest(t)
    /\ mic_recording
    /\ Len(mic_buffer) >= mic_sample_rate * 7
    /\ cycles < MaxCycles
    /\ t_est' = [t_est EXCEPT ![t] = feed[(cycles % Len(feed)) + 1]]
    /\ t_pc' = [t_pc EXCEPT ![t] = "stable"]
    /\ cycles' = cycles + 1
    /\ UNCHANGED << mic_recording, mic_stream, mic_buffer, mic_bpm_history,
                    mic_bpm, mic_start_time, mic_last_bpm_sample_ts,
                    mic_bpm_sample_interval, series_vars, final_mic_bpm,
                    clock, capture_vars, t_now, pending_final, history_vars,
                    batch_vars, stage_vars, feed >>

\* time.sleep(0.5) returns: half a second has passed
SleepEnds ==
    /\ \E t \in Threads : t_pc[t] = "sleep"
    /\ clock' = clock + SleepTicks
    /\ t_pc' = [t \in Threads |-> IF t_pc[t] = "sleep" THEN "loop" ELSE t_pc[t]]
    /\ UNCHANGED << mic_recording, mic_stream, mic_buffer, mic_bpm_history,
                    mic_bpm, mic_start_time, mic_last_bpm_sample_ts,
                    mic_bpm_sample_interval, series_vars, final_mic_bpm,
                    capture_vars, t_est, t_now, pending_final,
                    history_vars, batch_vars, stage_vars, feed_vars >>

NextHistory ==
    \/ SleepEnds
    \/ \E t \in Threads :
        \/ FeedStable(t)
        \/ UpdateStable(t)
        \/ AppendPair(t)

SpecHistory == InitHistory /\ [][NextHistory]_vars

(***************************************************************************)
(* Steps, as the properties below recognise them                           *)
(***************************************************************************)
\* a call of _start_mic_monitoring
StartStep == sessions' = sessions + 1

\* a call of _stop_mic_monitoring: by the toggle, or by a thread's finally
StopStep ==
    \/ mic_recording /\ ~mic_recording'
    \/ \E t \in Threads : t_pc[t] = "finally" /\ t_pc'[t] = "done"

\* a run of _perform_final_mic_analysis
FinalStep == finals_run' = finals_run + 1

\* the callback of thread t's stream appends its chunk / truncates
ExtendStep(t) == cb_pc[t] = "idle" /\ cb_pc'[t] = "truncate"

TruncateStep(t) == cb_pc[t] = "truncate" /\ cb_pc'[t] = "idle"

\* thread t reads the buffer at the top of a polling cycle
PollStep(t) == t_pc[t] = "loop" /\ t_pc'[t] \in {"stable", "cold", "sleep"}

\* thread t ends the update of a cycle: the live BPM is set, the sampling
\* interval is tested
UpdateStep(t) == t_pc[t] \in {"stable", "cold"} /\ t_pc'[t] # t_pc[t]

\* thread t appends the pair it has stamped
AppendStep(t) == t_pc[t] = "append" /\ t_pc'[t] # "append"

\* s continues r: r with pairs appended at its end, or r itself
Extends(s, r) == Len(s) >= Len(r) /\ SubSeq(s, 1, Len(r)) = r

\* the elapsed times of the series s never decrease
NonDecreasing(s) == \A i \in 1..(Len(s) - 1) : s[i][1] <= s[i + 1][1]

(***************************************************************************)
(* Series integrity                                                        *)
(***************************************************************************)
\* C1: during one session (every step but a start) the series only grows
\* by appending at its end, it begins with the pair (0, 0), and its elapsed
\* times never decrease from a pair to the next.
C1_SeriesAppendOnlyNonDecreasing ==
    [][(mic_time_bpm_pairs # 0 /\ ~StartStep)
          => /\ Extends(Series', Series)
             /\ Series'[1] = <<0, 0>>
             /\ NonDecreasing(Series')]_vars

\* C2: once a stop has frozen a copy of the series, every step that is not
\* itself a stop (a start of a new session, a callback, a step of an update
\* cycle, a final analysis, a tick) leaves the contents of the copy as they
\* are, and a start gives the new session a series of its own.
C2_FrozenCopyUnchanged ==
    [][~StopStep
          => /\ Recorded' = Recorded
             /\ StartStep => /\ Series' = InitialSeries
                             /\ mic_time_bpm_pairs' # recorded_mic_bpm_data']_vars

\* C2 happens: a copy is frozen, a second session runs and its series has
\* grown beyond the copy
C2_Witness ==
    /\ sessions = 2
    /\ mic_recording
    /\ recorded_mic_bpm_data # 0
    /\ Len(Series) > Len(Recorded)

(***************************************************************************)
(* The rolling buffer                                                      *)
(***************************************************************************)
\* C3: a callback appends its chunk at the end of the buffer, and when it
\* completes the buffer holds at most 10 x sample rate samples: the most
\* recent ones, in arrival order, and all of them when the cap was not
\* exceeded.
C3_BufferCapKeepsMostRecent ==
    [][\A t \in Threads :
          /\ ExtendStep(t) =>
                /\ Len(mic_buffer') = Len(mic_buffer) + mic_chunk_size
                /\ SubSeq(mic_buffer', 1, Len(mic_buffer)) = mic_buffer
          /\ TruncateStep(t) =>
                /\ Len(mic_buffer') <= 10 * mic_sample_rate
                /\ mic_buffer' = LastN(mic_buffer, 10 * mic_sample_rate)]_vars

\* C3 happens: the callbacks have completed and the buffer is at the cap,
\* which only a truncation of a longer buffer of clicks leaves
C3_Witness ==
    /\ \A t \in Threads : cb_pc[t] = "idle"
    /\ Len(mic_buffer) = max_buffer_size
    /\ \E i \in 1..Len(mic_buffer) : mic_buffer[i] # 0

\* C4: while a callback is between its append and its truncation, no
\* step of the analysis side reads or replaces the buffer: no polling
\* cycle begins, no session starts, no final analysis runs.
C4_BufferMutualExclusion ==
    [][(\E t \in Threads : cb_pc[t] = "truncate")
          => ~(StartStep \/ FinalStep \/ \E t \in Threads : PollStep(t))]_vars

(***************************************************************************)
(* Stopping                                                                *)
(***************************************************************************)
\* C5: each stop of a session runs the final analysis exactly once: the
\* final analyses run or queued never outnumber the sessions stopped, and
\* a final analysis never finds the buffer already cleared by an earlier
\* one, which would overwrite the final BPM with 0.
C5_FinalAnalysisOncePerStop ==
    /\ finals_run + pending_final <= sessions_stopped
    /\ pending_final > 0 /\ finals_run > 0 /\ ~mic_recording
          => mic_buffer # <<>>

\* C6: after a stop and until a new session starts, no pair is appended to
\* the series and the live BPM and the BPM history stay as they are.
C6_NoUpdateAfterStop ==
    [][(~mic_recording /\ ~mic_recording')
          => /\ Series' = Series
             /\ mic_bpm' = mic_bpm
             /\ mic_bpm_history' = mic_bpm_history]_vars

\* C7: immediately after a start the buffer and the BPM history are empty
\* and the live BPM is the "no estimate" value 0.
C7_StartResetsSessionState ==
    [][StartStep
          => /\ mic_buffer' = <<>>
             /\ mic_bpm_history' = <<>>
             /\ mic_bpm' = 0]_vars

(***************************************************************************)
(* Sampling the series                                                     *)
(***************************************************************************)
\* C8: every update cycle, cold-start or stable, with a positive estimate
\* or without, goes on to append a pair if and only if the sampling
\* interval has passed since the last sample; the append adds one pair and
\* sets the last-sample timestamp, and no other step of a session moves it.
C8_SampleIffIntervalReached ==
    [][/\ \A t \in Threads :
            /\ UpdateStep(t) => (t_pc'[t] = "append" <=> SampleDue(clock))
            /\ AppendStep(t) => /\ Len(Series') = Len(Series) + 1
                                /\ mic_last_bpm_sample_ts' = t_now[t]
       /\ (~StartStep /\ ~\E t \in Threads : AppendStep(t))
             => /\ mic_last_bpm_sample_ts' = mic_last_bpm_sample_ts
                /\ Len(Series') = Len(Series)]_vars

(***************************************************************************)
(* Degenerate buffers                                                      *)
(***************************************************************************)
\* C9: analyze_audio_segment returns 0, and raises nothing, for every
\* all-zero buffer, whatever its length.
C9_SilenceGivesZero ==
    (an_pc = "done" /\ \A i \in 1..Len(audio_in) : audio_in[i] = 0)
        => (~bpm_out.err /\ bpm_out.bpm = 0)

\* C10: analyze_audio_segment returns 0, and raises nothing, for every
\* buffer of fewer than frame_size samples, the empty one included.
C10_TooShortGivesZero ==
    (an_pc = "done" /\ Len(audio_in) < frame_size)
        => (~bpm_out.err /\ bpm_out.bpm = 0)

(***************************************************************************)
(* Tempo candidates                                                        *)
(***************************************************************************)
\* a tempo (BPM times 100) within [40, 220], both ends included
WithinTempoRange(c) == 40 * 100 <= c /\ c <= 220 * 100

\* base x 0.5, base x 1.0 and base x 2.0 for base = 60 / interval, the
\* interval in milliseconds: those within the range, in that order
HarmonicsWithinRange(interval) ==
    LET base == (60 * 1000 * 100) \div interval
    IN  (IF WithinTempoRange(base \div 2) THEN <<base \div 2>> ELSE <<>>)
        \o (IF WithinTempoRange(base) THEN <<base>> ELSE <<>>)
        \o (IF WithinTempoRange(2 * base) THEN <<2 * base>> ELSE <<>>)

\* the candidates expected of the intervals between the first k beats
RECURSIVE ExpectedCandidates(_, _)
ExpectedCandidates(beats, k) ==
    IF k < 2 THEN <<>>
    ELSE ExpectedCandidates(beats, k - 1)
         \o (IF beats[k] - beats[k - 1] > 0
             THEN HarmonicsWithinRange(beats[k] - beats[k - 1])
             ELSE <<>>)

\* C11: the candidates computed from a beat list are, interval by interval
\* and for the positive intervals only, exactly those of base x 0.5, base
\* and base x 2 that lie in [40, 220]; every candidate lies in [40, 220];
\* two beats 0.5 s apart give exactly the candidates 60 and 120.
C11_CandidatesWithinRange ==
    (an_pc = "done" /\ stage = "calculate_bpm_candidates")
        => /\ stage_out = ExpectedCandidates(stage_in, Len(stage_in))
           /\ \A i \in 1..Len(stage_out) : WithinTempoRange(stage_out[i])
           /\ stage_in = <<0, 500>> => stage_out = <<6000, 12000>>

\* C11 happens: candidates have been computed for beats 0.5 s and then
\* 1.5 s apart, 40 BPM at the lower end of the range among them
C11_Witness ==
    /\ an_pc = "done"
    /\ stage = "calculate_bpm_candidates"
    /\ stage_in = <<0, 500, 2000>>
    /\ stage_out = <<6000, 12000, 4000, 8000>>

(***************************************************************************)
(* Robust aggregation                                                      *)
(***************************************************************************)
\* 4 times the k-th quartile (k = 1, 3) of the values: the weighted mean of
\* the two order statistics around the position (n - 1) * k / 4
QuartileTimes4(values, k) ==
    LET t  == Sorted(values)
        h  == (Len(values) - 1) * k
        lo == (h \div 4) + 1
        hi == IF h % 4 = 0 THEN lo ELSE lo + 1
    IN  (4 - (h % 4)) * t[lo] + (h % 4) * t[hi]

\* v lies within [Q1 - 1.5 x IQR, Q3 + 1.5 x IQR] of the values (times 8)
WithinFences(values, v) ==
    LET q1  == QuartileTimes4(values, 1)
        q3  == QuartileTimes4(values, 3)
    IN  /\ 8 * v >= 2 * q1 - 3 * (q3 - q1)
        /\ 8 * v <= 2 * q3 + 3 * (q3 - q1)

\* C12: the IQR filter keeps exactly the candidates within
\* [Q1 - 1.5 x IQR, Q3 + 1.5 x IQR], the quartiles taken over all the
\* candidates, in their input order; of 60, 61, 59, 60, 200 it drops 200
\* and the BPM returned is 60.
C12_IqrFilterKeepsWithinFences ==
    (an_pc = "done" /\ stage = "aggregate")
        => /\ stage_out.filtered
                = SelectSeq(stage_in, LAMBDA v : WithinFences(stage_in, v))
           /\ stage_in = <<6000, 6100, 5900, 6000, 20000>>
                => /\ stage_out.filtered = <<6000, 6100, 5900, 6000>>
                   /\ stage_out.bpm = 6000

\* C12 happens: the candidates 60, 61, 59, 60, 200 have been aggregated
C12_Witness ==
    /\ an_pc = "done"
    /\ stage = "aggregate"
    /\ stage_in = <<6000, 6100, 5900, 6000, 20000>>
    /\ Len(stage_out.filtered) = 4

(***************************************************************************)
(* The refractory merge                                                    *)
(***************************************************************************)
\* the times (milliseconds) of the peaks at the given frames
TimesOfPeaks(peaks) ==
    [k \in 1..Len(peaks) |-> (peaks[k] * 1000 * 512) \div 44100]

\* the last of the beats at or before time t
LastBeatUpTo(beats, t) ==
    LET k == CHOOSE k \in 1..Len(beats) :
                 /\ beats[k] <= t
                 /\ \A j \in 1..Len(beats) : beats[j] <= t => j <= k
    IN  beats[k]

AllEqual(h, c) == \A i \in 1..Len(h) : h[i] = c

\* C14: while every stable-phase cycle has yielded the same consensus
\* value c, the live BPM is c (to the hundredth of a BPM), whatever the
\* length of the history, 1 to 20: it neither drifts nor oscillates.
C14_ConstantTempoHolds ==
    (mic_bpm_history # <<>> /\ AllEqual(mic_bpm_history, mic_bpm_history[1]))
        => mic_bpm = mic_bpm_history[1]

\* C14 happens: more than 20 cycles have yielded 90 BPM, the history is
\* full and the live BPM is 90
C14_Witness ==
    /\ cycles > 20
    /\ Len(mic_bpm_history) = 20
    /\ AllEqual(mic_bpm_history, 9000)
    /\ mic_bpm = 9000
    /\ \A t \in Threads : t_pc[t] # "stable"

(***************************************************************************)
(* Statistics of a series                                                  *)
(***************************************************************************)
\* C15: the pairs without an estimate (BPM <= 0) stay in the series, and
\* whenever the series has a pair with BPM > 0, the overall BPM of a file
\* analysis and the average, minimum, maximum and standard deviation shown
\* for a file's series and for a microphone series are those of the pairs
\* with BPM > 0 alone.
C15_StatisticsOverPositivePairs ==
    (an_pc = "done" /\ stage = "statistics"
        /\ \E i \in 1..Len(stage_in) : stage_in[i][2] > 0)
        => LET positive ==
                   SelectSeq([i \in 1..Len(stage_in) |-> stage_in[i][2]],
                             LAMBDA b : b > 0)
           IN  /\ stage_out.overall = SumSeq(positive) \div Len(positive)
               /\ stage_out.file = StatsOf(positive)
               /\ stage_out.mic = StatsOf(positive)

(***************************************************************************)
(* Construction                                                            *)
(***************************************************************************)
\* C16: an analyzer constructed with a non-positive frame or hop size, or
\* with hop_size >= frame_size, is rejected by the constructor.
C16_InvalidConfigRejected ==
    (an_pc = "done" /\ stage = "BPMAnalyzer"
        /\ (stage_in[1] <= 0 \/ stage_in[2] <= 0 \/ stage_in[2] >= stage_in[1]))
        => stage_out.err

\* thread t completes the update of a stable-phase cycle
StableUpdateStep(t) == t_pc[t] = "stable" /\ t_pc'[t] # "stable"

\* the median of one, two or three estimates
MiddleOf(est) ==
    IF Len(est) = 1 THEN est[1]
    ELSE IF Len(est) = 2 THEN (est[1] + est[2]) \div 2
    ELSE est[1] + est[2] + est[3]
         - Max2(est[1], Max2(est[2], est[3]))
         - Min2(est[1], Min2(est[2], est[3]))

\* C17: a stable-phase cycle with at least one positive estimate appends
\* exactly one value to the BPM history, the median of its positive
\* estimates (the oldest entry leaving a full history); a cycle with none
\* leaves the history and the live BPM as they are.
C17_StableCycleAppendsMedian ==
    [][\A t \in Threads :
          StableUpdateStep(t) =>
              IF t_est[t] # <<>>
              THEN mic_bpm_history'
                     = Append(IF Len(mic_bpm_history) < 20 THEN mic_bpm_history
                              ELSE Tail(mic_bpm_history),
                              MiddleOf(t_est[t]))
              ELSE /\ mic_bpm_history' = mic_bpm_history
                   /\ mic_bpm' = mic_bpm]_vars

\* C17 happens: cycles with three estimates have appended their median,
\* 120 BPM, and a cycle without any has left the history and the live BPM
C17_Witness ==
    /\ feed = << <<9000, 12000, 18000>>, <<>> >>
    /\ cycles = 4
    /\ mic_bpm_history = <<12000, 12000>>
    /\ mic_bpm = 12000
    /\ \A t \in Threads : t_pc[t] # "stable"

(***************************************************************************)
(* The windows of a stable-phase cycle                                     *)
(***************************************************************************)
\* C18: of the three sub-windows analysed in the 7 s window of a
\* stable-phase cycle each is 5 s long, the first ends at the tail of the
\* window and each further one starts 2.5 s before the one before it, so
\* that the three cover three different ranges of samples.
C18_ThreeDistinctSubWindows ==
    (\E t \in Threads : t_pc[t] = "stable")
        => LET n == 7 * mic_sample_rate
           IN  /\ \A i \in 0..2 :
                      StableSegmentRange(n, i)[2] - StableSegmentRange(n, i)[1]
                          = 5 * mic_sample_rate
               /\ StableSegmentRange(n, 0)[2] = n
               /\ \A i \in 1..2 :
                      StableSegmentRange(n, i)[1]
                          = StableSegmentRange(n, i - 1)[1]
                              - (5 * mic_sample_rate) \div 2

(***************************************************************************)
(* Smoothing                                                               *)
(***************************************************************************)
\* the 3-point median filter at place i of h: the two ends as they are,
\* an interior entry replaced by the middle one of itself and its neighbours
MedianFilterAt(h, i) ==
    IF i = 1 \/ i = Len(h) THEN h[i]
    ELSE MiddleOf(<<h[i - 1], h[i], h[i + 1]>>)

\* the exponential moving average (alpha = 0.3) of the first k filtered
\* entries, seeded by the first
RECURSIVE MovingAverageUpTo(_, _)
MovingAverageUpTo(h, k) ==
    IF k = 1 THEN MedianFilterAt(h, 1)
    ELSE (3 * MedianFilterAt(h, k) + 7 * MovingAverageUpTo(h, k - 1)) \div 10

\* C19: after a stable-phase cycle that appended a consensus value the
\* live BPM is a function of the history alone: its median when it has
\* fewer than 3 entries, else the last value of the exponential moving
\* average (alpha = 0.3, seeded by the first filtered value) over the
\* history passed through the 3-point median filter, ends unchanged.
C19_LiveBpmFromHistory ==
    [][\A t \in Threads :
          (StableUpdateStep(t) /\ t_est[t] # <<>>)
              => mic_bpm' = IF Len(mic_bpm_history') < 3
                            THEN MiddleOf(mic_bpm_history')
                            ELSE MovingAverageUpTo(mic_bpm_history',
                                                   Len(mic_bpm_history'))]_vars

\* C19 happens: the history holds different values, among them an interior
\* entry the median filter replaces, and the live BPM is none of them
C19_Witness ==
    /\ Len(mic_bpm_history) >= 5
    /\ \E i \in 2..(Len(mic_bpm_history) - 1) :
           MedianFilterAt(mic_bpm_history, i) # mic_bpm_history[i]
    /\ \A i \in 1..Len(mic_bpm_history) : mic_bpm # mic_bpm_history[i]
    /\ \A t \in Threads : t_pc[t] # "stable"

(***************************************************************************)
(* The bounded history                                                     *)
(***************************************************************************)
\* C20: the BPM history never holds more than history_size = 20 entries,
\* and a step that appends to it keeps the newest ones in their order:
\* the new history is one longer while there is room and as long as
\* before when full, and every entry but the last is the old entry that
\* stood as many places from the end, so only the oldest ones leave.
C20_HistoryBounded ==
    [][/\ Len(mic_bpm_history) <= 20
       /\ Len(mic_bpm_history') <= 20
       /\ \A t \in Threads :
            (StableUpdateStep(t) /\ t_est[t] # <<>>)
                => /\ Len(mic_bpm_history')
                          = Min2(Len(mic_bpm_history) + 1, 20)
                   /\ \A i \in 1..(Len(mic_bpm_history') - 1) :
                          mic_bpm_history'[i]
                              = mic_bpm_history[i + Len(mic_bpm_history) + 1
                                                  - Len(mic_bpm_history')]]_vars

\* C20 happens: more values were appended than the history holds, the
\* history is full and its oldest and newest entries differ
C20_Witness ==
    /\ Len(mic_bpm_history) = 20
    /\ cycles = MaxCycles
    /\ \A k \in 1..Len(feed) : feed[k] # <<>>
    /\ mic_bpm_history[1] # mic_bpm_history[20]
    /\ \A t \in Threads : t_pc[t] # "stable"

(***************************************************************************)
(* The cold-start phase                                                    *)
(***************************************************************************)
\* thread t reads the buffer in the cold-start phase / ends that cycle's update
ColdPollStep(t) == t_pc[t] = "loop" /\ t_pc'[t] = "cold"

ColdUpdateStep(t) == t_pc[t] = "cold" /\ t_pc'[t] # "cold"

\* thread t polls with less than 2 s buffered
ShortPollStep(t) ==
    /\ t_pc[t] = "loop" /\ t_pc'[t] = "sleep"
    /\ Len(mic_buffer) < 2 * mic_sample_rate

\* the batch pipeline on the last 2 s of the buffer, normalised by their peak
LastTwoSeconds(buffer) ==
    SubSeq(buffer, Len(buffer) - 2 * mic_sample_rate + 1, Len(buffer))

\* C21: in the cold-start phase (at least 2 s and less than 7 s buffered) a
\* cycle analyses the most recent 2 s once; a positive result becomes the
\* live BPM, a non-positive one leaves it, and the history is unchanged in
\* both cases; with less than 2 s buffered a polling step changes neither
\* the live BPM, the history nor the series.
C21_ColdStartAdoptsQuickBpm ==
    [][\A t \in Threads :
          /\ ColdPollStep(t)
                => /\ Len(mic_buffer) >= 2 * mic_sample_rate
                   /\ Len(mic_buffer) < 7 * mic_sample_rate
                   /\ t_est'[t] = << analyze_audio_segment(
                                        PeakNormalized(LastTwoSeconds(mic_buffer)),
                                        mic_sample_rate).bpm >>
                   /\ UNCHANGED << mic_bpm, mic_bpm_history >>
          /\ ColdUpdateStep(t)
                => /\ mic_bpm_history' = mic_bpm_history
                   /\ Len(t_est[t]) = 1
                   /\ mic_bpm' = IF t_est[t][1] > 0 THEN t_est[t][1]
                                 ELSE mic_bpm
          /\ ShortPollStep(t)
                => /\ UNCHANGED << mic_bpm, mic_bpm_history >>
                   /\ Series' = Series]_vars

\* C21 happens: in the first session, before any stable-phase cycle, a
\* cold-start cycle has made its estimate the live BPM
C21_Witness ==
    /\ sessions = 1
    /\ mic_recording
    /\ mic_bpm > 0
    /\ mic_bpm_history = <<>>
    /\ Len(mic_buffer) < 7 * mic_sample_rate
    /\ \E t \in Threads : t_pc[t] \in {"append", "sleep"}

(***************************************************************************)
(* The final analysis                                                      *)
(***************************************************************************)
\* the value at place k of s in ascending order
OrderStatistic(s, k) ==
    LET v == CHOOSE i \in 1..Len(s) :
                 /\ Cardinality({j \in 1..Len(s) : s[j] < s[i]}) < k
                 /\ Cardinality({j \in 1..Len(s) : s[j] <= s[i]}) >= k
    IN  s[v]

\* the median of a non-empty sequence, by rank
MedianByRank(s) ==
    (OrderStatistic(s, ((Len(s) - 1) \div 2) + 1)
        + OrderStatistic(s, (Len(s) \div 2) + 1)) \div 2

\* the estimates > 0 of the pieces buffer[a : b] for the ranges << a, b >>
PositiveEstimates(buffer, ranges) ==
    SelectSeq([k \in 1..Len(ranges) |->
                   analyze_audio_segment(
                       SubSeq(buffer, ranges[k][1] + 1, ranges[k][2]),
                       mic_sample_rate).bpm],
              LAMBDA b : b > 0)

\* segments of 5 s stepped by 2.5 s, at most 5, each inside n samples
ExpectedFinalRanges(n) ==
    [k \in 1..Cardinality({j \in 0..4 :
                  (j * 5 * mic_sample_rate) \div 2 + 5 * mic_sample_rate <= n}) |->
        << ((k - 1) * 5 * mic_sample_rate) \div 2,
           ((k - 1) * 5 * mic_sample_rate) \div 2 + 5 * mic_sample_rate >>]

\* the estimates the final BPM is taken from: those of the segments, those
\* of the whole buffer when there is no segment or none gave a BPM > 0
ExpectedFinalEstimates(buffer) ==
    IF buffer = <<>> THEN <<>>
    ELSE IF PositiveEstimates(buffer, ExpectedFinalRanges(Len(buffer))) = <<>>
    THEN PositiveEstimates(buffer, << <<0, Len(buffer)>> >>)
    ELSE PositiveEstimates(buffer, ExpectedFinalRanges(Len(buffer)))

\* C22: the final analysis cuts the buffer into segments of 5 s stepped by
\* 2.5 s, at most 5, each inside the buffer; it analyses the whole buffer
\* as one piece when the buffer is shorter than 5 s or no segment gave a
\* positive BPM; the final BPM is the median of all the positive estimates
\* (also when there are more than 3 and the smallest and the largest are
\* dropped first), and 0 when there is none.
C22_FinalBpmIsMedianOfSegments ==
    (stage = "perform_final_mic_analysis" /\ an_pc = "done")
        => /\ stage_out.ranges = ExpectedFinalRanges(Len(stage_in))
           /\ Len(stage_out.ranges) <= 5
           /\ \A k \in 1..Len(stage_out.ranges) :
                  stage_out.ranges[k][2] <= Len(stage_in)
           /\ stage_out.segment_bpms = ExpectedFinalEstimates(stage_in)
           /\ stage_out.final_mic_bpm
                  = IF stage_out.segment_bpms = <<>> THEN 0
                    ELSE MedianByRank(stage_out.segment_bpms)

\* C22 happens: five segments gave four or more positive estimates, and
\* the final BPM is neither the smallest nor the largest of them
C22_Witness ==
    /\ stage = "perform_final_mic_analysis" /\ an_pc = "done"
    /\ Len(stage_out.ranges) = 5
    /\ Len(stage_out.segment_bpms) > 3
    /\ \E i \in 1..Len(stage_out.segment_bpms) :
           stage_out.segment_bpms[i] < stage_out.final_mic_bpm
    /\ \E i \in 1..Len(stage_out.segment_bpms) :
           stage_out.segment_bpms[i] > stage_out.final_mic_bpm

(***************************************************************************)
(* One writer per session                                                  *)
(***************************************************************************)
\* C23: only the monitor thread of the current session polls the buffer,
\* updates the live BPM and the history, or appends to the series: the
\* thread of an earlier session, once that session is stopped and a new
\* one started, ends its loop without another cycle.
C23_SingleWriterPerSession ==
    [][\A t \in Threads :
          (PollStep(t) \/ UpdateStep(t) \/ AppendStep(t)) => t = sessions]_vars

(***************************************************************************)
(* The range of the tempo                                                  *)
(***************************************************************************)
\* no estimate, or a tempo of 40 to 220 BPM
NoneOrWithinRange(bpm) == bpm = 0 \/ (40 * 100 <= bpm /\ bpm <= 220 * 100)

\* C24: the live BPM is 0 or within [40, 220] in every reachable state, and
\* so are every value of the BPM history, the BPM of every pair of the
\* series and every BPM analyze_audio_segment has returned to a monitor
\* thread or to the final analysis.
C24_BpmZeroOrWithinRange ==
    /\ NoneOrWithinRange(mic_bpm)
    /\ \A i \in 1..Len(mic_bpm_history) : NoneOrWithinRange(mic_bpm_history[i])
    /\ \A i \in 1..Len(Series) : NoneOrWithinRange(Series[i][2])
    /\ \A i \in 1..Len(Recorded) : NoneOrWithinRange(Recorded[i][2])
    /\ \A t \in Threads : \A i \in 1..Len(t_est[t]) :
           NoneOrWithinRange(t_est[t][i])
    /\ final_mic_bpm # Absent => NoneOrWithinRange(final_mic_bpm)

\* C24 happens: estimates have reached the history, the live BPM and the
\* series, and a final analysis has found a tempo
C24_Witness ==
    /\ mic_bpm > 0
    /\ mic_bpm_history # <<>>
    /\ \E i \in 1..Len(Series) : Series[i][2] > 0
    /\ final_mic_bpm # Absent /\ final_mic_bpm > 0

(***************************************************************************)
(* The fallback of the aggregation                                         *)
(***************************************************************************)
\* C25: the BPM returned is 0 exactly when the candidate list is empty;
\* of a non-empty candidate list the IQR filter keeps at least one, so the
\* median of the unfiltered candidates is never what is returned for want
\* of filtered ones, and the BPM returned is positive.
C25_FilterNeverEmptiesCandidates ==
    (an_pc = "done" /\ stage = "aggregate")
        => /\ stage_out.bpm = 0 <=> stage_in = <<>>
           /\ stage_in # <<>> => /\ stage_out.filtered # <<>>
                                 /\ stage_out.bpm > 0

\* C25 happens: five equal candidates, whose fences close on their value,
\* have been aggregated and all are kept
C25_Witness ==
    /\ an_pc = "done"
    /\ stage = "aggregate"
    /\ Len(stage_in) = 5
    /\ \A i \in 1..Len(stage_in) : stage_in[i] = stage_in[1]
    /\ stage_out.filtered = stage_in
    /\ stage_out.bpm = stage_in[1]

(***************************************************************************)
(* The smoothing of the aggregation                                        *)
(***************************************************************************)
\* the sum of the means of the first n windows f[i], f[i + 1], f[i + 2]
RECURSIVE SumOfWindowMeans(_, _)
SumOfWindowMeans(f, n) ==
    IF n = 0 THEN 0
    ELSE SumOfWindowMeans(f, n - 1) + (f[n] + f[n + 1] + f[n + 2]) \div 3

\* C26: with k candidates kept by the IQR filter the BPM returned is the
\* mean of the k - 2 means of the windows of 3 successive candidates (each
\* window one further than the one before) when k >= 3, and the mean of
\* the candidates kept when k is 1 or 2.
C26_MeanOfWindowMeans ==
    (an_pc = "done" /\ stage = "aggregate")
        => /\ Len(stage_out.filtered) >= 3
                => stage_out.bpm
                     = SumOfWindowMeans(stage_out.filtered,
                                        Len(stage_out.filtered) - 2)
                           \div (Len(stage_out.filtered) - 2)
           /\ Len(stage_out.filtered) = 1
                => stage_out.bpm = stage_out.filtered[1]
           /\ Len(stage_out.filtered) = 2
                => stage_out.bpm
                     = (stage_out.filtered[1] + stage_out.filtered[2]) \div 2

\* C26 happens: five candidates are kept and the mean of their three
\* window means is not the mean of the five
C26_Witness ==
    /\ an_pc = "done"
    /\ stage = "aggregate"
    /\ Len(stage_out.filtered) = 5
    /\ stage_out.bpm # SumSeq(stage_out.filtered) \div 5

(***************************************************************************)
(* The onset curve                                                         *)
(***************************************************************************)
\* the stage _detect_beats_improved has returned its lists
Detected == an_pc = "done" /\ stage = "detect_beats_improved" /\ ~stage_out.err

\* the frame indices i whose span [i * hop, i * hop + frame_size) lies
\* inside a buffer of n samples
FramesInside(n) ==
    {i \in 0..n : i * hop_size + frame_size <= n}

\* C27: there is one energy value for every frame whose span lies inside
\* the buffer, so the onset curve is empty only for a buffer shorter than
\* one frame; a buffer of frame_size samples gives one energy value and a
\* buffer of frame_size + hop_size samples two.
C27_EnergyFramePerSpan ==
    Detected
        => /\ Len(stage_out.energy) = Cardinality(FramesInside(Len(stage_in)))
           /\ Len(stage_in) = frame_size => Len(stage_out.energy) = 1
           /\ Len(stage_in) = frame_size + hop_size
                => Len(stage_out.energy) = 2
           /\ stage_out.combined_onset = <<>> => Len(stage_in) < frame_size

\* the weighted sum 0.7 e + 0.3 f, NaN when one of them is
WeightedOnset(e, f) ==
    IF IsNaN(e) \/ IsNaN(f) THEN NaN ELSE (7 * e + 3 * f) \div 10

\* C28: the combined onset curve is as long as the shorter of the energy
\* and flux lists; its element at frame i >= 1 is 0.7 times the energy
\* plus 0.3 times the spectral flux of that same frame i (the flux of frame
\* i is the change from frame i - 1 to frame i, and the first frame has
\* none); the beats are the peak frames i at the times i * hop / sample
\* rate, merged.
C28_OnsetCombinesSameFrame ==
    Detected
        => /\ Len(stage_out.combined_onset)
                = Min2(Len(stage_out.energy), Len(stage_out.spectral_flux))
           /\ \A j \in 2..Len(stage_out.combined_onset) :
                  stage_out.combined_onset[j]
                      = WeightedOnset(stage_out.energy[j],
                                      stage_out.spectral_flux[j - 1])
           /\ stage_out.beats
                = RefineBeats(<<>>,
                      [k \in 1..Len(stage_out.peaks) |->
                          (stage_out.peaks[k] * hop_size * 1000)
                              \div mic_sample_rate])

\* the sum of the p-th powers (p = 1, 2) of onset at the 0-based places lo..hi
RECURSIVE WindowPowerSum(_, _, _, _)
WindowPowerSum(onset, lo, hi, p) ==
    IF lo > hi THEN 0
    ELSE (IF p = 1 THEN onset[hi + 1] ELSE onset[hi + 1] * onset[hi + 1])
         + WindowPowerSum(onset, lo, hi - 1, p)

\* onset at the 0-based place i exceeds mean + 1.3 * standard deviation of
\* the window of at most 31 values that ends at i: with n values of sum S
\* and sum of squares Q, n x - S > 1.3 * sqrt(n Q - S * S)
ExceedsLocalThreshold(onset, i) ==
    LET lo == IF i - 30 > 0 THEN i - 30 ELSE 0
        n  == i - lo + 1
        S  == WindowPowerSum(onset, lo, i, 1)
        Q  == WindowPowerSum(onset, lo, i, 2)
    IN  /\ n * onset[i + 1] - S > 0
        /\ 100 * (n * onset[i + 1] - S) * (n * onset[i + 1] - S)
               > 169 * (n * Q - S * S)

\* C29: a frame i is a peak only if it is neither the first nor the last
\* frame of the onset curve and onset[i] is strictly greater than
\* onset[i - 1], than onset[i + 1] and than the local mean plus 1.3 times
\* the local standard deviation over the window that ends at i; an empty
\* or constant onset curve gives no beats.
C29_PeaksInteriorAboveThreshold ==
    Detected
        => /\ \A k \in 1..Len(stage_out.peaks) :
                  /\ stage_out.peaks[k] >= 1
                  /\ stage_out.peaks[k] <= Len(stage_out.combined_onset) - 2
                  /\ ~HasNaN(stage_out.combined_onset)
                  /\ stage_out.combined_onset[stage_out.peaks[k] + 1]
                         > stage_out.combined_onset[stage_out.peaks[k]]
                  /\ stage_out.combined_onset[stage_out.peaks[k] + 1]
                         > stage_out.combined_onset[stage_out.peaks[k] + 2]
                  /\ ExceedsLocalThreshold(stage_out.combined_onset,
                                           stage_out.peaks[k])
           /\ (\A j \in 1..Len(stage_out.combined_onset) :
                   stage_out.combined_onset[j] = stage_out.combined_onset[1])
                => stage_out.peaks = <<>> /\ stage_out.beats = <<>>

\* C29 happens: peaks are accepted in a curve of more than 31 frames, one
\* of them beyond frame 30, where the window that ends at it no longer
\* begins at the first frame
C29_Witness ==
    /\ Detected
    /\ Len(stage_out.combined_onset) > 31
    /\ Len(stage_out.peaks) >= 5
    /\ \E k \in 1..Len(stage_out.peaks) : stage_out.peaks[k] > 30

(***************************************************************************)
(* Purity                                                                  *)
(***************************************************************************)
\* a call of analyze_audio_segment returns
CallReturns == an_pc = "ready" /\ an_pc' = "done"

=============================================================================
